---- MODULE Spec2Model ----
(***************************************************************************)
(* Undo/redo command history of headlesnb: the notebook command family of  *)
(* history.py (insert, delete, overwrite, move, swap, reorder), the two    *)
(* stacks of OperationHistory, and the NotebookManager methods that build, *)
(* execute and record the commands for the active notebook.                *)
(*                                                                         *)
(* Python lists are 0-based; sequences here are 1-based, so list index i   *)
(* is sequence position i + 1.  Negative list indices keep their Python    *)
(* meaning (counted from the end).                                         *)
(***************************************************************************)
EXTENDS Integers, Sequences, FiniteSets, TLC

\* ------------------------------------------------------------------ bounds
\* largest max_size an OperationHistory is constructed with (the managers
\* pass 100; the histories here are built with 1 or MaxHist)
MaxHist == 2
\* commands recorded (add_command calls) in one behaviour
MaxOps == 2
\* largest steps argument of undo / redo: one call can take the whole stack
MaxSteps == MaxOps
\* times the environment makes a write_nb raise in one behaviour
MaxFaults == 1

\* inputs
InitSources == <<"a", "b", "c">>
\* longest cell list an insert may produce
MaxCells == Len(InitSources) + 1
InsertSources == {"x"}
OverwriteSources == {"x", ""}

VARIABLES
    cells,        \* nb.cells of the active notebook
    undo_stack,   \* nb_info.history.undo_stack
    redo_stack,   \* nb_info.history.redo_stack
    max_size,     \* nb_info.history.max_size
    result,       \* what the last manager call returned
    ops,          \* number of add_command calls so far
    last,         \* history variable: the last manager call that ran a command
                  \* or the history loop, and its arguments
    snaps,        \* history variable: per stacked command, the cells before
                  \* its first execute and after it
    run,          \* history variable: the operations since the empty history,
                  \* while they form k operations, undo(k), redo(k)
    active_notebook,  \* self.active_notebook: a name, or NoNotebook for None
    notebooks,    \* self.notebooks without the entry of the active notebook
                  \* (whose fields are the variables above): name -> NotebookInfo
    write_fails,  \* environment: the next write_nb to the notebook's path raises
    faults,       \* environment: number of times write_nb was made to raise
    files,        \* the notebook files under root_path, one path per name
    open_names,   \* self.notebooks.keys()
    lock,         \* self._lock: the thread that holds it, or Unlocked
    threads,      \* per thread, the manager call it is in and its position
    dialog        \* DialogManager: self.dialogs[self.active_dialog]

vars == <<cells, undo_stack, redo_stack, max_size, result, ops, last, snaps, run,
          active_notebook, notebooks, write_fails, faults, files, open_names,
          lock, threads, dialog>>

\* what the methods of a NotebookManager called by one thread never touch:
\* the lock, the other threads, and the dialog manager
rest == <<lock, threads, dialog>>

\* the part of the manager outside the active notebook, and the environment
outside == <<active_notebook, notebooks, write_fails, faults, open_names, rest>>

\* a call has ended; io says that a write_nb in it raised, which uses up
\* the failure the environment had set up
Written(io) ==
    /\ write_fails' = (write_fails /\ ~io)
    /\ UNCHANGED <<active_notebook, notebooks, faults, open_names, rest>>

\* write_nb(nb, nb_info.path) of the active notebook: wrote says that a
\* write_nb of the call went through, the last of them with the cells the
\* call ends with
Saved(wrote) ==
    files' = IF wrote
             THEN [files EXCEPT ![active_notebook] = [exists |-> TRUE, cells |-> cells']]
             ELSE files

\* self.active_notebook = None
NoNotebook == "None"

\* notebook names
Names == {"A", "B"}

\* not full_path.exists()
NoFile == [exists |-> FALSE, cells |-> <<>>]

\* the threads that call the manager
Threads == {"t1", "t2"}

\* self._lock held by no thread
Unlocked == "unlocked"

\* a thread outside every call of the manager
Idle == [pc |-> "idle", notebook_name |-> NoNotebook, mode |-> "connect"]

\* the manager called by one thread: the lock is free between the calls
SingleThreaded ==
    /\ lock = Unlocked
    /\ threads = [t \in Threads |-> Idle]

\* no dialog in use
NoDialog ==
    [messages |-> <<>>, objects |-> <<>>, undo_stack |-> <<>>, redo_stack |-> <<>>,
     max_size |-> 0, current_msg_id |-> 0]

\* --------------------------------------------------------- Python lists
Min(a, b) == IF a < b THEN a ELSE b
Max(a, b) == IF a > b THEN a ELSE b

Front(s) == SubSeq(s, 1, Len(s) - 1)

RECURSIVE Reverse(_)
Reverse(s) == IF s = <<>> THEN <<>> ELSE Append(Reverse(Tail(s)), Head(s))

\* list.insert(i, x): negative i counts from the end, out of range clamps
ListInsert(s, i, x) ==
    LET n == Len(s)
        j == IF i < 0 THEN Max(i + n, 0) ELSE Min(i, n)
    IN SubSeq(s, 1, j) \o <<x>> \o SubSeq(s, j + 1, n)

\* s[i], del s[i], s.pop(i) raise IndexError unless -len <= i < len
IndexOk(s, i) == i >= 0 - Len(s) /\ i < Len(s)

\* the 1-based position list index i denotes
Pos(s, i) == IF i < 0 THEN i + Len(s) + 1 ELSE i + 1

ListGet(s, i) == s[Pos(s, i)]

ListDel(s, i) == SubSeq(s, 1, Pos(s, i) - 1) \o SubSeq(s, Pos(s, i) + 1, Len(s))

ListSet(s, i, x) == [s EXCEPT ![Pos(s, i)] = x]

\* sorted(set(xs), reverse=True)
RECURSIVE SortedDesc(_)
SortedDesc(S) ==
    IF S = {} THEN <<>>
    ELSE LET m == CHOOSE x \in S : \A y \in S : y <= x
         IN <<m>> \o SortedDesc(S \ {m})

Range(s) == {s[i] : i \in 1..Len(s)}

\* list(range(n))
RangeList(n) == [i \in 1..n |-> i - 1]

\* xs.index(v): position of the first occurrence (0-based)
ListIndex(xs, v) == (CHOOSE i \in 1..Len(xs) : xs[i] = v /\ \A j \in 1..(i - 1) : xs[j] # v) - 1

\* ------------------------------------------------------------- cells
\* mk_cell(source, cell_type): a fresh NbCell, created with idx_ 0
mk_cell(source, cell_type) ==
    [source |-> source, cell_type |-> cell_type, outputs |-> <<>>, idx_ |-> 0]

\* for i, cell in enumerate(nb.cells): cell.idx_ = i
Reindex(s) == [i \in 1..Len(s) |-> [s[i] EXCEPT !.idx_ = i - 1]]

\* nb2dict(cell): the cell's fields without the private idx_
nb2dict(cell) ==
    [source |-> cell.source, cell_type |-> cell.cell_type, outputs |-> cell.outputs]

\* NbCell(idx, cell_dict)
NbCell(idx, d) ==
    [source |-> d.source, cell_type |-> d.cell_type, outputs |-> d.outputs, idx_ |-> idx]

\* ----------------------------------------------------------- commands
\* Every execute / undo returns [ok, cells, cmd]: ok = FALSE when the Python
\* code raises, and then cells is the list as the raise left it.

\* write_nb(nb, nb_info.path) at the end of an execute or undo that got as
\* far as r: it raises when the file cannot be written, after the cells
\* were changed in memory
write_nb(r) ==
    IF r.ok /\ write_fails
    THEN [ok |-> FALSE, cells |-> r.cells, cmd |-> r.cmd, io |-> TRUE]
    ELSE r

\* the exception an execute or undo ended with came from write_nb
IOError(r) == "io" \in DOMAIN r

InsertCellCommand(cell_index, cell_type, cell_source) ==
    [kind |-> "insert", cell_index |-> cell_index, cell_type |-> cell_type,
     cell_source |-> cell_source]

\* faulty variant: the cell lands one position after the requested index
InsertCellCommand_execute_after(cs, cmd) ==
    LET new_cell == mk_cell(cmd.cell_source, cmd.cell_type)
        actual_index == IF cmd.cell_index = -1 THEN Len(cs) ELSE cmd.cell_index
    IN [ok |-> TRUE,
        cells |-> Reindex(ListInsert(cs, actual_index + 1, new_cell)),
        cmd |-> [cmd EXCEPT !.cell_index = actual_index]]

\* faulty variant: the command keeps the index it was created with (-1 for
\* an append) instead of actual_index
InsertCellCommand_execute_keeps_sentinel(cs, cmd) ==
    LET new_cell == mk_cell(cmd.cell_source, cmd.cell_type)
        actual_index == IF cmd.cell_index = -1 THEN Len(cs) ELSE cmd.cell_index
    IN [ok |-> TRUE,
        cells |-> Reindex(ListInsert(cs, actual_index, new_cell)),
        cmd |-> cmd]

InsertCellCommand_execute(cs, cmd) ==
    LET new_cell == mk_cell(cmd.cell_source, cmd.cell_type)
        actual_index == IF cmd.cell_index = -1 THEN Len(cs) ELSE cmd.cell_index
        written == write_nb([ok |-> TRUE,
                             cells |-> Reindex(ListInsert(cs, actual_index, new_cell)),
                             cmd |-> cmd])
    IN IF written.ok
       THEN [written EXCEPT !.cmd = [cmd EXCEPT !.cell_index = actual_index]]
       ELSE written

InsertCellCommand_undo(cs, cmd) ==
    write_nb(
        IF cmd.cell_index < Len(cs)
        THEN IF IndexOk(cs, cmd.cell_index)
             THEN [ok |-> TRUE, cells |-> Reindex(ListDel(cs, cmd.cell_index)), cmd |-> cmd]
             ELSE [ok |-> FALSE, cells |-> cs, cmd |-> cmd]
        ELSE [ok |-> TRUE, cells |-> Reindex(cs), cmd |-> cmd])

DeleteCellCommand(cell_indices) ==
    [kind |-> "delete", cell_indices |-> cell_indices, deleted_cells |-> <<>>]

\* the loop over sorted_indices: acc = [cells, deleted]
RECURSIVE DeleteLoop(_, _, _)
DeleteLoop(cs, deleted, idxs) ==
    IF idxs = <<>> THEN [ok |-> TRUE, cells |-> cs, deleted |-> deleted]
    ELSE LET idx == Head(idxs)
         IN IF idx < Len(cs)
            THEN IF IndexOk(cs, idx)
                 THEN DeleteLoop(ListDel(cs, idx),
                                 Append(deleted, [index |-> idx, cell |-> nb2dict(ListGet(cs, idx))]),
                                 Tail(idxs))
                 ELSE [ok |-> FALSE, cells |-> cs, deleted |-> deleted]
            ELSE DeleteLoop(cs, deleted, Tail(idxs))

DeleteCellCommand_execute(cs, cmd) ==
    write_nb(
        LET sorted_indices == SortedDesc(Range(cmd.cell_indices))
            r == DeleteLoop(cs, <<>>, sorted_indices)
        IN IF r.ok
           THEN [ok |-> TRUE, cells |-> Reindex(r.cells),
                 cmd |-> [cmd EXCEPT !.deleted_cells = r.deleted]]
           ELSE [ok |-> FALSE, cells |-> r.cells,
                 cmd |-> [cmd EXCEPT !.deleted_cells = r.deleted]])

\* for item in reversed(self.deleted_cells): nb.cells.insert(idx, cell)
RECURSIVE ReinsertLoop(_, _)
ReinsertLoop(cs, items) ==
    IF items = <<>> THEN cs
    ELSE LET item == Head(items)
         IN ReinsertLoop(ListInsert(cs, item.index, NbCell(item.index, item.cell)), Tail(items))

\* faulty variant: deleted_cells re-inserted in deletion order (no reversed())
DeleteCellCommand_undo_unreversed(cs, cmd) ==
    [ok |-> TRUE, cells |-> Reindex(ReinsertLoop(cs, cmd.deleted_cells)), cmd |-> cmd]

\* faulty variant: the cells are not re-indexed after the re-insertion
DeleteCellCommand_undo_stale_idx(cs, cmd) ==
    [ok |-> TRUE, cells |-> ReinsertLoop(cs, Reverse(cmd.deleted_cells)), cmd |-> cmd]

DeleteCellCommand_undo(cs, cmd) ==
    write_nb(
        [ok |-> TRUE, cells |-> Reindex(ReinsertLoop(cs, Reverse(cmd.deleted_cells))), cmd |-> cmd])

OverwriteCellCommand(cell_index, old_source, new_source) ==
    [kind |-> "overwrite", cell_index |-> cell_index, old_source |-> old_source,
     new_source |-> new_source]

OverwriteCellCommand_execute(cs, cmd) ==
    write_nb(
        IF ~IndexOk(cs, cmd.cell_index)
        THEN [ok |-> FALSE, cells |-> cs, cmd |-> cmd]
        ELSE LET old == IF cmd.old_source = ""
                        THEN ListGet(cs, cmd.cell_index).source
                        ELSE cmd.old_source
                 cell == ListGet(cs, cmd.cell_index)
             IN [ok |-> TRUE,
                 cells |-> ListSet(cs, cmd.cell_index, [cell EXCEPT !.source = cmd.new_source]),
                 cmd |-> [cmd EXCEPT !.old_source = old]])

OverwriteCellCommand_undo(cs, cmd) ==
    write_nb(
        IF ~IndexOk(cs, cmd.cell_index)
        THEN [ok |-> FALSE, cells |-> cs, cmd |-> cmd]
        ELSE LET cell == ListGet(cs, cmd.cell_index)
             IN [ok |-> TRUE,
                 cells |-> ListSet(cs, cmd.cell_index, [cell EXCEPT !.source = cmd.old_source]),
                 cmd |-> cmd])

MoveCellCommand(from_index, to_index) ==
    [kind |-> "move", from_index |-> from_index, to_index |-> to_index]

\* faulty variant: the cells at from_index and to_index change places
MoveCellCommand_execute_exchange(cs, cmd) ==
    write_nb(
        IF ~IndexOk(cs, cmd.from_index) \/ ~IndexOk(cs, cmd.to_index)
        THEN [ok |-> FALSE, cells |-> cs, cmd |-> cmd]
        ELSE LET cell == ListGet(cs, cmd.from_index)
                 other == ListGet(cs, cmd.to_index)
             IN [ok |-> TRUE,
                 cells |-> Reindex(ListSet(ListSet(cs, cmd.from_index, other),
                                           cmd.to_index, cell)),
                 cmd |-> cmd])

MoveCellCommand_execute(cs, cmd) ==
    write_nb(
        IF ~IndexOk(cs, cmd.from_index)
        THEN [ok |-> FALSE, cells |-> cs, cmd |-> cmd]
        ELSE LET cell == ListGet(cs, cmd.from_index)
             IN [ok |-> TRUE,
                 cells |-> Reindex(ListInsert(ListDel(cs, cmd.from_index), cmd.to_index, cell)),
                 cmd |-> cmd])

\* faulty variant: undo moves from from_index to to_index again
MoveCellCommand_undo_forward(cs, cmd) ==
    IF ~IndexOk(cs, cmd.from_index)
    THEN [ok |-> FALSE, cells |-> cs, cmd |-> cmd]
    ELSE LET cell == ListGet(cs, cmd.from_index)
         IN [ok |-> TRUE,
             cells |-> Reindex(ListInsert(ListDel(cs, cmd.from_index), cmd.to_index, cell)),
             cmd |-> cmd]

MoveCellCommand_undo(cs, cmd) ==
    write_nb(
        IF ~IndexOk(cs, cmd.to_index)
        THEN [ok |-> FALSE, cells |-> cs, cmd |-> cmd]
        ELSE LET cell == ListGet(cs, cmd.to_index)
             IN [ok |-> TRUE,
                 cells |-> Reindex(ListInsert(ListDel(cs, cmd.to_index), cmd.from_index, cell)),
                 cmd |-> cmd])

SwapCellsCommand(index1, index2) ==
    [kind |-> "swap", index1 |-> index1, index2 |-> index2]

\* faulty variant: the two assignments made one after the other, so that
\* both positions end up holding the cell of index2
SwapCellsCommand_execute_sequential(cs, cmd) ==
    IF ~(IndexOk(cs, cmd.index1) /\ IndexOk(cs, cmd.index2))
    THEN [ok |-> FALSE, cells |-> cs, cmd |-> cmd]
    ELSE LET c2 == ListGet(cs, cmd.index2)
         IN [ok |-> TRUE,
             cells |-> Reindex(ListSet(ListSet(cs, cmd.index1, c2), cmd.index2, c2)),
             cmd |-> cmd]

SwapCellsCommand_execute(cs, cmd) ==
    write_nb(
        IF ~(IndexOk(cs, cmd.index1) /\ IndexOk(cs, cmd.index2))
        THEN [ok |-> FALSE, cells |-> cs, cmd |-> cmd]
        ELSE LET c1 == ListGet(cs, cmd.index1)
                 c2 == ListGet(cs, cmd.index2)
             IN [ok |-> TRUE,
                 cells |-> Reindex(ListSet(ListSet(cs, cmd.index1, c2), cmd.index2, c1)),
                 cmd |-> cmd])

SwapCellsCommand_undo(cs, cmd) == SwapCellsCommand_execute(cs, cmd)

ReorderCellsCommand(new_order) ==
    [kind |-> "reorder", old_order |-> <<>>, new_order |-> new_order]

\* faulty variant: the cell at old index i goes to position new_order[i]
ReorderCellsCommand_execute_inverse(cs, cmd) ==
    write_nb(
        LET old_order == IF cmd.old_order = <<>> THEN RangeList(Len(cs)) ELSE cmd.old_order
            cmd2 == [cmd EXCEPT !.old_order = old_order]
        IN IF \E k \in 1..Len(cmd.new_order) : ~IndexOk(cs, cmd.new_order[k])
           THEN [ok |-> FALSE, cells |-> cs, cmd |-> cmd2]
           ELSE [ok |-> TRUE,
                 cells |-> Reindex([k \in 1..Len(cmd.new_order) |->
                                       ListGet(cs, ListIndex(cmd.new_order, k - 1))]),
                 cmd |-> cmd2])

ReorderCellsCommand_execute(cs, cmd) ==
    write_nb(
        LET old_order == IF cmd.old_order = <<>> THEN RangeList(Len(cs)) ELSE cmd.old_order
            cmd2 == [cmd EXCEPT !.old_order = old_order]
        IN IF \E k \in 1..Len(cmd.new_order) : ~IndexOk(cs, cmd.new_order[k])
           THEN [ok |-> FALSE, cells |-> cs, cmd |-> cmd2]
           ELSE [ok |-> TRUE,
                 cells |-> Reindex([k \in 1..Len(cmd.new_order) |-> ListGet(cs, cmd.new_order[k])]),
                 cmd |-> cmd2])

\* faulty variant: undo applies new_order again instead of its inverse
ReorderCellsCommand_undo_reapply(cs, cmd) ==
    IF \E k \in 1..Len(cmd.new_order) : ~IndexOk(cs, cmd.new_order[k])
    THEN [ok |-> FALSE, cells |-> cs, cmd |-> cmd]
    ELSE [ok |-> TRUE,
          cells |-> Reindex([k \in 1..Len(cmd.new_order) |-> ListGet(cs, cmd.new_order[k])]),
          cmd |-> cmd]

ReorderCellsCommand_undo(cs, cmd) ==
    write_nb(
        IF \E k \in 1..Len(cmd.old_order) :
               \/ cmd.old_order[k] \notin Range(cmd.new_order)
               \/ ~IndexOk(cs, ListIndex(cmd.new_order, cmd.old_order[k]))
        THEN [ok |-> FALSE, cells |-> cs, cmd |-> cmd]
        ELSE [ok |-> TRUE,
              cells |-> Reindex([k \in 1..Len(cmd.old_order) |->
                                    ListGet(cs, ListIndex(cmd.new_order, cmd.old_order[k]))]),
              cmd |-> cmd])

\* ----------------------------------------------------------- messages
\* A dialog document is [messages, objects]: objects holds every Message
\* object created so far, and messages (dialog.messages) lists references
\* (positions in objects), so that a command and the list can hold the
\* same object. The commands below take and return the document where the
\* cell commands take and return nb.cells.

\* None
NoValue == "None"

\* the value of datetime.now().strftime(...) at the time of a call
Now == "now"

\* Message(content=content, msg_type=msg_type); id is generate_msg_id(),
\* taken to be different from every id generated before
Message(id, content, msg_type) ==
    [id |-> id, content |-> content, msg_type |-> msg_type, output |-> "",
     time_run |-> NoValue]

\* the reference a new object gets
NewRef(d) == Len(d.objects) + 1

\* hasattr(msg, key)
hasattr(msg, key) == key \in DOMAIN msg

\* getattr(msg, key)
getattr(msg, key) == msg[key]

\* setattr(msg, key, value) on the object ref
setattr(d, ref, key, value) ==
    LET msg == d.objects[ref]
    IN [d EXCEPT !.objects[ref] =
            [k \in DOMAIN msg \cup {key} |-> IF k = key THEN value ELSE msg[k]]]

\* the Message at list index i
MessageAt(d, i) == d.objects[ListGet(d.messages, i)]

\* [msg.id for msg in dialog.messages]
MessageIds(d) == [i \in 1..Len(d.messages) |-> d.objects[d.messages[i]].id]

\* save_dialog_to_file(dialog, dialog.path) at the end of an execute or
\* undo that got as far as r
save_dialog_to_file(r) ==
    IF r.ok /\ write_fails
    THEN [ok |-> FALSE, cells |-> r.cells, cmd |-> r.cmd, io |-> TRUE]
    ELSE r

\* message is the reference of the Message object the command holds
InsertMessageCommand(msg_index, message) ==
    [kind |-> "insert_message", msg_index |-> msg_index, message |-> message]

InsertMessageCommand_execute(d, cmd) ==
    LET actual_index == IF cmd.msg_index = -1 THEN Len(d.messages) ELSE cmd.msg_index
    IN save_dialog_to_file(
           [ok |-> TRUE,
            cells |-> [d EXCEPT !.messages = ListInsert(d.messages, actual_index, cmd.message)],
            cmd |-> [cmd EXCEPT !.msg_index = actual_index]])

InsertMessageCommand_undo(d, cmd) ==
    IF cmd.msg_index < Len(d.messages)
    THEN IF IndexOk(d.messages, cmd.msg_index)
         THEN save_dialog_to_file(
                  [ok |-> TRUE,
                   cells |-> [d EXCEPT !.messages = ListDel(d.messages, cmd.msg_index)],
                   cmd |-> cmd])
         ELSE [ok |-> FALSE, cells |-> d, cmd |-> cmd]
    ELSE save_dialog_to_file([ok |-> TRUE, cells |-> d, cmd |-> cmd])

DeleteMessageCommand(msg_indices) ==
    [kind |-> "delete_message", msg_indices |-> msg_indices, deleted_messages |-> <<>>]

\* the loop over sorted_indices; deepcopy(msg) makes a new object
RECURSIVE DeleteMessagesLoop(_, _, _)
DeleteMessagesLoop(d, deleted, idxs) ==
    IF idxs = <<>> THEN [ok |-> TRUE, cells |-> d, deleted |-> deleted]
    ELSE LET idx == Head(idxs)
         IN IF idx < Len(d.messages)
            THEN IF IndexOk(d.messages, idx)
                 THEN DeleteMessagesLoop(
                          [messages |-> ListDel(d.messages, idx),
                           objects |-> Append(d.objects, MessageAt(d, idx))],
                          Append(deleted, [index |-> idx, message |-> NewRef(d)]),
                          Tail(idxs))
                 ELSE [ok |-> FALSE, cells |-> d, deleted |-> deleted]
            ELSE DeleteMessagesLoop(d, deleted, Tail(idxs))

DeleteMessageCommand_execute(d, cmd) ==
    LET sorted_indices == SortedDesc(Range(cmd.msg_indices))
        r == DeleteMessagesLoop(d, <<>>, sorted_indices)
        done == [ok |-> r.ok, cells |-> r.cells,
                 cmd |-> [cmd EXCEPT !.deleted_messages = r.deleted]]
    IN save_dialog_to_file(done)

\* for item in reversed(self.deleted_messages): dialog.messages.insert(idx, msg)
RECURSIVE ReinsertMessagesLoop(_, _)
ReinsertMessagesLoop(messages, items) ==
    IF items = <<>> THEN messages
    ELSE ReinsertMessagesLoop(ListInsert(messages, Head(items).index, Head(items).message),
                              Tail(items))

DeleteMessageCommand_undo(d, cmd) ==
    save_dialog_to_file(
        [ok |-> TRUE,
         cells |-> [d EXCEPT !.messages =
                        ReinsertMessagesLoop(d.messages, Reverse(cmd.deleted_messages))],
         cmd |-> cmd])

UpdateMessageCommand(msg_index, field_name, old_value, new_value) ==
    [kind |-> "update_message", msg_index |-> msg_index, field_name |-> field_name,
     old_value |-> old_value, new_value |-> new_value]

UpdateMessageCommand_execute(d, cmd) ==
    IF ~IndexOk(d.messages, cmd.msg_index)
    THEN [ok |-> FALSE, cells |-> d, cmd |-> cmd]
    ELSE LET ref == ListGet(d.messages, cmd.msg_index)
             msg == d.objects[ref]
         IN IF cmd.old_value = NoValue /\ ~hasattr(msg, cmd.field_name)
            THEN [ok |-> FALSE, cells |-> d, cmd |-> cmd]
            ELSE save_dialog_to_file(
                     [ok |-> TRUE,
                      cells |-> setattr(d, ref, cmd.field_name, cmd.new_value),
                      cmd |-> IF cmd.old_value = NoValue
                              THEN [cmd EXCEPT !.old_value = getattr(msg, cmd.field_name)]
                              ELSE cmd])

UpdateMessageCommand_undo(d, cmd) ==
    IF ~IndexOk(d.messages, cmd.msg_index)
    THEN [ok |-> FALSE, cells |-> d, cmd |-> cmd]
    ELSE save_dialog_to_file(
             [ok |-> TRUE,
              cells |-> setattr(d, ListGet(d.messages, cmd.msg_index), cmd.field_name,
                                cmd.old_value),
              cmd |-> cmd])

UpdateMessageOutputCommand(msg_index, old_output, new_output, new_time_run) ==
    [kind |-> "update_output", msg_index |-> msg_index, old_output |-> old_output,
     new_output |-> new_output, old_time_run |-> NoValue, new_time_run |-> new_time_run]

UpdateMessageOutputCommand_execute(d, cmd) ==
    IF ~IndexOk(d.messages, cmd.msg_index)
    THEN [ok |-> FALSE, cells |-> d, cmd |-> cmd]
    ELSE LET ref == ListGet(d.messages, cmd.msg_index)
             msg == d.objects[ref]
             with_output == setattr(d, ref, "output", cmd.new_output)
         IN save_dialog_to_file(
                [ok |-> TRUE,
                 cells |-> IF cmd.new_time_run # NoValue /\ cmd.new_time_run # ""
                           THEN setattr(with_output, ref, "time_run", cmd.new_time_run)
                           ELSE with_output,
                 cmd |-> [cmd EXCEPT
                            !.old_output = IF @ = NoValue THEN msg.output ELSE @,
                            !.old_time_run = IF @ = NoValue THEN msg.time_run ELSE @]])

UpdateMessageOutputCommand_undo(d, cmd) ==
    IF ~IndexOk(d.messages, cmd.msg_index)
    THEN [ok |-> FALSE, cells |-> d, cmd |-> cmd]
    ELSE LET ref == ListGet(d.messages, cmd.msg_index)
         IN save_dialog_to_file(
                [ok |-> TRUE,
                 cells |-> setattr(setattr(d, ref, "output", cmd.old_output),
                                   ref, "time_run", cmd.old_time_run),
                 cmd |-> cmd])

MoveMessageCommand(from_index, to_index) ==
    [kind |-> "move_message", from_index |-> from_index, to_index |-> to_index]

MoveMessageCommand_execute(d, cmd) ==
    IF ~IndexOk(d.messages, cmd.from_index)
    THEN [ok |-> FALSE, cells |-> d, cmd |-> cmd]
    ELSE LET msg == ListGet(d.messages, cmd.from_index)
         IN save_dialog_to_file(
                [ok |-> TRUE,
                 cells |-> [d EXCEPT !.messages =
                                ListInsert(ListDel(d.messages, cmd.from_index), cmd.to_index, msg)],
                 cmd |-> cmd])

MoveMessageCommand_undo(d, cmd) ==
    IF ~IndexOk(d.messages, cmd.to_index)
    THEN [ok |-> FALSE, cells |-> d, cmd |-> cmd]
    ELSE LET msg == ListGet(d.messages, cmd.to_index)
         IN save_dialog_to_file(
                [ok |-> TRUE,
                 cells |-> [d EXCEPT !.messages =
                                ListInsert(ListDel(d.messages, cmd.to_index), cmd.from_index, msg)],
                 cmd |-> cmd])

SwapMessagesCommand(index1, index2) ==
    [kind |-> "swap_messages", index1 |-> index1, index2 |-> index2]

SwapMessagesCommand_execute(d, cmd) ==
    IF ~(IndexOk(d.messages, cmd.index1) /\ IndexOk(d.messages, cmd.index2))
    THEN [ok |-> FALSE, cells |-> d, cmd |-> cmd]
    ELSE LET m1 == ListGet(d.messages, cmd.index1)
             m2 == ListGet(d.messages, cmd.index2)
         IN save_dialog_to_file(
                [ok |-> TRUE,
                 cells |-> [d EXCEPT !.messages =
                                ListSet(ListSet(d.messages, cmd.index1, m2), cmd.index2, m1)],
                 cmd |-> cmd])

SwapMessagesCommand_undo(d, cmd) == SwapMessagesCommand_execute(d, cmd)

\* HistoryCommand.execute / undo / redo / description, by command class
command_execute(cs, cmd) ==
    CASE cmd.kind = "insert" -> InsertCellCommand_execute(cs, cmd)
      [] cmd.kind = "delete" -> DeleteCellCommand_execute(cs, cmd)
      [] cmd.kind = "overwrite" -> OverwriteCellCommand_execute(cs, cmd)
      [] cmd.kind = "move" -> MoveCellCommand_execute(cs, cmd)
      [] cmd.kind = "swap" -> SwapCellsCommand_execute(cs, cmd)
      [] cmd.kind = "reorder" -> ReorderCellsCommand_execute(cs, cmd)
      [] cmd.kind = "insert_message" -> InsertMessageCommand_execute(cs, cmd)
      [] cmd.kind = "delete_message" -> DeleteMessageCommand_execute(cs, cmd)
      [] cmd.kind = "update_message" -> UpdateMessageCommand_execute(cs, cmd)
      [] cmd.kind = "update_output" -> UpdateMessageOutputCommand_execute(cs, cmd)
      [] cmd.kind = "move_message" -> MoveMessageCommand_execute(cs, cmd)
      [] cmd.kind = "swap_messages" -> SwapMessagesCommand_execute(cs, cmd)

command_undo(cs, cmd) ==
    CASE cmd.kind = "insert" -> InsertCellCommand_undo(cs, cmd)
      [] cmd.kind = "delete" -> DeleteCellCommand_undo(cs, cmd)
      [] cmd.kind = "overwrite" -> OverwriteCellCommand_undo(cs, cmd)
      [] cmd.kind = "move" -> MoveCellCommand_undo(cs, cmd)
      [] cmd.kind = "swap" -> SwapCellsCommand_undo(cs, cmd)
      [] cmd.kind = "reorder" -> ReorderCellsCommand_undo(cs, cmd)
      [] cmd.kind = "insert_message" -> InsertMessageCommand_undo(cs, cmd)
      [] cmd.kind = "delete_message" -> DeleteMessageCommand_undo(cs, cmd)
      [] cmd.kind = "update_message" -> UpdateMessageCommand_undo(cs, cmd)
      [] cmd.kind = "update_output" -> UpdateMessageOutputCommand_undo(cs, cmd)
      [] cmd.kind = "move_message" -> MoveMessageCommand_undo(cs, cmd)
      [] cmd.kind = "swap_messages" -> SwapMessagesCommand_undo(cs, cmd)

\* HistoryCommand.redo: call execute again
command_redo(cs, cmd) == command_execute(cs, cmd)

\* description(): the text, as the fields it is formatted from
Desc(op, type, a, b, list) == [op |-> op, type |-> type, a |-> a, b |-> b, list |-> list]

description(cmd) ==
    CASE cmd.kind = "insert" -> Desc("Insert", cmd.cell_type, cmd.cell_index, 0, <<>>)
      [] cmd.kind = "delete" -> Desc("Delete", "", Len(cmd.cell_indices), 0, cmd.cell_indices)
      [] cmd.kind = "overwrite" -> Desc("Overwrite", "", cmd.cell_index, 0, <<>>)
      [] cmd.kind = "move" -> Desc("Move", "", cmd.from_index, cmd.to_index, <<>>)
      [] cmd.kind = "swap" -> Desc("Swap", "", cmd.index1, cmd.index2, <<>>)
      [] cmd.kind = "reorder" -> Desc("Reorder", "", 0, 0, cmd.new_order)
      [] cmd.kind = "insert_message" -> Desc("Insert message", "", cmd.msg_index, 0, <<>>)
      [] cmd.kind = "delete_message" ->
             Desc("Delete message", "", Len(cmd.msg_indices), 0, cmd.msg_indices)
      [] cmd.kind = "update_message" -> Desc("Update message", cmd.field_name, cmd.msg_index, 0, <<>>)
      [] cmd.kind = "update_output" -> Desc("Update output", "", cmd.msg_index, 0, <<>>)
      [] cmd.kind = "move_message" -> Desc("Move message", "", cmd.from_index, cmd.to_index, <<>>)
      [] cmd.kind = "swap_messages" -> Desc("Swap messages", "", cmd.index1, cmd.index2, <<>>)

\* ---------------------------------------------------- OperationHistory
\* faulty variant: the size limit is not applied
add_command_unbounded(us, rs, size, command) ==
    [undo |-> Append(us, command), redo |-> <<>>]

\* faulty variant: the redo stack survives a new command
add_command_keeps_redo(us, rs, size, command) ==
    LET pushed == Append(us, command)
    IN [undo |-> IF Len(pushed) > size THEN Tail(pushed) ELSE pushed,
        redo |-> rs]

add_command(us, rs, size, command) ==
    LET pushed == Append(us, command)
    IN [undo |-> IF Len(pushed) > size THEN Tail(pushed) ELSE pushed,
        redo |-> <<>>]

\* a history that always claims to have something to undo
can_undo_always(us) == TRUE

can_undo(us) == Len(us) > 0

can_redo(rs) == Len(rs) > 0

\* faulty variant: the descriptions are listed from the bottom of the stack
get_description_bottom_first(stack, count) ==
    LET c == IF count > Len(stack) THEN Len(stack) ELSE count
    IN [i \in 1..c |-> description(stack[i])]

\* descriptions of the top count commands of a stack, top first
get_description(stack, count) ==
    LET c == IF count > Len(stack) THEN Len(stack) ELSE count
    IN [i \in 1..c |-> description(stack[Len(stack) - (i - 1)])]

get_undo_description(us, count) == get_description(us, count)

get_redo_description(rs, count) == get_description(rs, count)

\* faulty variant: a command whose undo raises is appended to the undo
\* stack without having been popped from it
RECURSIVE UndoLoop_repushes_failed(_, _, _, _, _)
UndoLoop_repushes_failed(cs, us, rs, steps, n) ==
    IF steps <= 0 \/ us = <<>>
    THEN [cells |-> cs, undo |-> us, redo |-> rs, n |-> n, raised |-> FALSE,
          io |-> FALSE]
    ELSE LET command == us[Len(us)]
             r == command_undo(cs, command)
         IN IF r.ok
            THEN UndoLoop_repushes_failed(r.cells, Front(us), Append(rs, command), steps - 1, n + 1)
            ELSE [cells |-> r.cells, undo |-> Append(us, command), redo |-> rs, n |-> n,
                  raised |-> TRUE, io |-> IOError(r)]

\* the loop of OperationHistory.undo; n counts the results appended
RECURSIVE UndoLoop(_, _, _, _, _)
UndoLoop(cs, us, rs, steps, n) ==
    IF steps <= 0 \/ us = <<>>
    THEN [cells |-> cs, undo |-> us, redo |-> rs, n |-> n, raised |-> FALSE,
          io |-> FALSE]
    ELSE LET command == us[Len(us)]
             r == command_undo(cs, command)
         IN IF r.ok
            THEN UndoLoop(r.cells, Front(us), Append(rs, command), steps - 1, n + 1)
            ELSE [cells |-> r.cells, undo |-> us, redo |-> rs, n |-> n, raised |-> TRUE,
                  io |-> IOError(r)]

\* faulty variant: steps is ignored, one command is undone
OperationHistory_undo_single(cs, us, rs, steps) == UndoLoop(cs, us, rs, Min(1, Len(us)), 0)

OperationHistory_undo(cs, us, rs, steps) == UndoLoop(cs, us, rs, Min(steps, Len(us)), 0)

\* faulty variant: redo takes the oldest undone command (the bottom of the
\* redo stack) first
RECURSIVE RedoLoop_oldest_first(_, _, _, _, _)
RedoLoop_oldest_first(cs, us, rs, steps, n) ==
    IF steps <= 0 \/ rs = <<>>
    THEN [cells |-> cs, undo |-> us, redo |-> rs, n |-> n, raised |-> FALSE,
          io |-> FALSE]
    ELSE LET command == rs[1]
             r == command_redo(cs, command)
         IN IF r.ok
            THEN RedoLoop_oldest_first(r.cells, Append(us, r.cmd), Tail(rs), steps - 1, n + 1)
            ELSE [cells |-> r.cells, undo |-> us, redo |-> <<r.cmd>> \o Tail(rs),
                  n |-> n, raised |-> TRUE, io |-> IOError(r)]

RECURSIVE RedoLoop(_, _, _, _, _)
RedoLoop(cs, us, rs, steps, n) ==
    IF steps <= 0 \/ rs = <<>>
    THEN [cells |-> cs, undo |-> us, redo |-> rs, n |-> n, raised |-> FALSE,
          io |-> FALSE]
    ELSE LET command == rs[Len(rs)]
             r == command_redo(cs, command)
         IN IF r.ok
            THEN RedoLoop(r.cells, Append(us, r.cmd), Front(rs), steps - 1, n + 1)
            ELSE [cells |-> r.cells, undo |-> us, redo |-> Append(Front(rs), r.cmd),
                  n |-> n, raised |-> TRUE, io |-> IOError(r)]

OperationHistory_redo(cs, us, rs, steps) == RedoLoop(cs, us, rs, Min(steps, Len(rs)), 0)

\* ------------------------------------------------------ history variables
Res(status, index, n, descs) == [status |-> status, index |-> index, n |-> n, descs |-> descs]

\* the request that created the command a snapshot belongs to
NoTop == [op |-> "", a |-> 0, b |-> 0, list |-> <<>>]

TopOf(stack) ==
    IF stack = <<>> THEN NoTop
    ELSE [op |-> stack[Len(stack)].op, a |-> stack[Len(stack)].a,
          b |-> stack[Len(stack)].b, list |-> stack[Len(stack)].list]

\* a manager call: its arguments (a, b, list); for undo / redo, b is the
\* number of commands processed, top the request of the first command it
\* takes, and direct says that the cells are as that command left them;
\* expect is that command's snapshot of the cells the call should restore;
\* for undo, after_swap_noop says that the call before it was a swap_cells
\* that returned "no swap needed"
Call(op, a, b, list, ok, direct) ==
    [op |-> op, a |-> a, b |-> b, list |-> list, ok |-> ok, direct |-> direct,
     top |-> NoTop, expect |-> <<>>, after_swap_noop |-> FALSE]

\* doc is the notebook that was active when the command was recorded
Snap(pre, post, call) ==
    [pre |-> pre, post |-> post, op |-> call.op, a |-> call.a, b |-> call.b,
     list |-> call.list, doc |-> active_notebook]

\* the snapshots follow add_command
SnapsRecorded(call, post) ==
    LET pushed == Append(snaps.undo, Snap(cells, post, call))
    IN [undo |-> IF Len(undo_stack) + 1 > max_size THEN Tail(pushed) ELSE pushed, redo |-> <<>>]

\* the top n snapshots of one stack move to the other, top first
SnapsMoved(from, to, n) ==
    [rest |-> SubSeq(from, 1, Len(from) - n),
     grown |-> to \o Reverse(SubSeq(from, Len(from) - n + 1, Len(from)))]

\* the snapshots of the n commands a redo executes again, first one first:
\* each is taken anew around that execute
RECURSIVE SnapsRedone(_, _, _, _)
SnapsRedone(cs, rsnaps, rs, n) ==
    IF n = 0 THEN <<>>
    ELSE LET r == command_redo(cs, rs[Len(rs)])
         IN <<[rsnaps[Len(rsnaps)] EXCEPT !.pre = cs, !.post = r.cells]>>
                \o SnapsRedone(r.cells, Front(rsnaps), Front(rs), n - 1)

\* the arguments are in the range the operation documents: an insert index
\* is a position 0..len or the append sentinel -1 (the other operations
\* are only recorded with in-range indices)
ValidCall(call) == call.op = "insert" => call.a \in (-1)..Len(cells)

\* the operations no longer have that form
RunOff == [phase |-> "off", k |-> 0, s0 |-> <<>>, sk |-> <<>>]

RunRecorded(call) ==
    IF run.phase = "ops" /\ ValidCall(call)
    THEN [run EXCEPT !.k = run.k + 1]
    ELSE RunOff

RunUndone(steps) ==
    IF run.phase = "ops" /\ run.k >= 1 /\ steps = run.k
    THEN [run EXCEPT !.phase = "undone", !.sk = cells]
    ELSE RunOff

RunRedone(steps) ==
    IF run.phase = "undone" /\ steps = run.k
    THEN [run EXCEPT !.phase = "redone"]
    ELSE RunOff

\* ------------------------------------------------------ NotebookManager
\* the common tail of the mutating methods: the try block around
\* command.execute(self); nb_info.history.add_command(command)
Recorded(r, call, okResult, errResult) ==
    IF r.ok
    THEN LET h == add_command(undo_stack, redo_stack, max_size, r.cmd)
         IN /\ cells' = r.cells
            /\ undo_stack' = h.undo
            /\ redo_stack' = h.redo
            /\ ops' = ops + 1
            /\ result' = okResult
            /\ last' = [call EXCEPT !.ok = TRUE]
            /\ snaps' = SnapsRecorded(call, r.cells)
            /\ run' = RunRecorded(call)
            /\ Saved(TRUE)
            /\ UNCHANGED <<max_size, outside>>
    ELSE /\ cells' = r.cells
         /\ result' = errResult
         /\ last' = call
         /\ run' = RunOff
         /\ Written(IOError(r))
         /\ Saved(FALSE)
         /\ UNCHANGED <<undo_stack, redo_stack, max_size, ops, snaps>>

\* a call that returns before it runs a command
Returned(res) ==
    /\ result' = res
    /\ UNCHANGED <<cells, undo_stack, redo_stack, max_size, ops, last, snaps, run, outside,
                   files>>

\* if not self.active_notebook: return "Error: No active notebook. ..."
NoActive == Res("no_active", 0, 0, <<>>)

\* a write_nb outside any try block raises: the call ends with the exception
Raised ==
    /\ result' = Res("raised", 0, 0, <<>>)
    /\ write_fails' = FALSE
    /\ UNCHANGED <<cells, undo_stack, redo_stack, max_size, ops, last, snaps, run,
                   active_notebook, notebooks, faults, files, open_names, rest>>

\* faulty variant: no check that a notebook is active
insert_cell_unguarded(cell_index, cell_type, cell_source) ==
    LET call == Call("insert", cell_index, 0, <<>>, FALSE, FALSE)
    IN /\ ops < MaxOps
       /\ Len(cells) < MaxCells
       /\ IF cell_type \notin {"code", "markdown"}
          THEN Returned(Res("error", 0, 0, <<>>))
          ELSE LET command == InsertCellCommand(cell_index, cell_type, cell_source)
                   r == InsertCellCommand_execute(cells, command)
               IN Recorded(r, call, Res("ok", r.cmd.cell_index, 0, <<>>),
                           Res("error", 0, 0, <<>>))

insert_cell(cell_index, cell_type, cell_source) ==
    LET call == Call("insert", cell_index, 0, <<>>, FALSE, FALSE)
    IN /\ ops < MaxOps
       /\ Len(cells) < MaxCells
       /\ IF active_notebook = NoNotebook
          THEN Returned(NoActive)
          ELSE IF cell_type \notin {"code", "markdown"}
          THEN Returned(Res("error", 0, 0, <<>>))
          ELSE LET command == InsertCellCommand(cell_index, cell_type, cell_source)
                   r == InsertCellCommand_execute(cells, command)
               IN Recorded(r, call, Res("ok", r.cmd.cell_index, 0, <<>>),
                           Res("error", 0, 0, <<>>))

overwrite_cell_source(cell_index, cell_source) ==
    LET call == Call("overwrite", cell_index, 0, <<>>, FALSE, FALSE)
    IN /\ ops < MaxOps
       /\ IF active_notebook = NoNotebook
          THEN Returned(NoActive)
          ELSE IF cell_index < 0 \/ cell_index >= Len(cells)
          THEN Returned(Res("error", 0, 0, <<>>))
          ELSE LET old_source == ListGet(cells, cell_index).source
                   command == OverwriteCellCommand(cell_index, old_source, cell_source)
                   r == OverwriteCellCommand_execute(cells, command)
               IN Recorded(r, call, Res("ok", cell_index, 0, <<>>),
                           Res("error", 0, 0, <<>>))

delete_cell(cell_indices) ==
    LET call == Call("delete", 0, 0, cell_indices, FALSE, FALSE)
        invalid == {k \in 1..Len(cell_indices) :
                        cell_indices[k] < 0 \/ cell_indices[k] >= Len(cells)}
    IN /\ ops < MaxOps
       /\ IF active_notebook = NoNotebook
          THEN Returned(NoActive)
          ELSE IF invalid # {}
          THEN Returned(Res("error", 0, 0, <<>>))
          ELSE LET command == DeleteCellCommand(cell_indices)
                   r == DeleteCellCommand_execute(cells, command)
               IN Recorded(r, call, Res("ok", 0, Cardinality(Range(cell_indices)), <<>>),
                           Res("error", 0, 0, <<>>))

\* faulty variant: equal indices are not answered early; the move is
\* executed and recorded
move_cell_records_noop(from_index, to_index) ==
    LET call == Call("move", from_index, to_index, <<>>, FALSE, FALSE)
    IN /\ ops < MaxOps
       /\ IF active_notebook = NoNotebook
          THEN Returned(NoActive)
          ELSE IF from_index < 0 \/ from_index >= Len(cells)
          THEN Returned(Res("error", 0, 0, <<>>))
          ELSE IF to_index < 0 \/ to_index >= Len(cells)
          THEN Returned(Res("error", 0, 0, <<>>))
          ELSE LET command == MoveCellCommand(from_index, to_index)
                   r == MoveCellCommand_execute(cells, command)
               IN Recorded(r, call, Res("noop_move", to_index, 0, <<>>),
                           Res("error", 0, 0, <<>>))

move_cell(from_index, to_index) ==
    LET call == Call("move", from_index, to_index, <<>>, FALSE, FALSE)
    IN /\ ops < MaxOps
       /\ IF active_notebook = NoNotebook
          THEN Returned(NoActive)
          ELSE IF from_index < 0 \/ from_index >= Len(cells)
          THEN Returned(Res("error", 0, 0, <<>>))
          ELSE IF to_index < 0 \/ to_index >= Len(cells)
          THEN Returned(Res("error", 0, 0, <<>>))
          ELSE IF from_index = to_index
          THEN Returned(Res("noop_move", to_index, 0, <<>>))
          ELSE LET command == MoveCellCommand(from_index, to_index)
                   r == MoveCellCommand_execute(cells, command)
               IN Recorded(r, call, Res("ok", to_index, 0, <<>>),
                           Res("error", 0, 0, <<>>))

swap_cells(index1, index2) ==
    LET call == Call("swap", index1, index2, <<>>, FALSE, FALSE)
    IN /\ ops < MaxOps
       /\ IF active_notebook = NoNotebook
          THEN Returned(NoActive)
          ELSE IF index1 < 0 \/ index1 >= Len(cells)
          THEN Returned(Res("error", 0, 0, <<>>))
          ELSE IF index2 < 0 \/ index2 >= Len(cells)
          THEN Returned(Res("error", 0, 0, <<>>))
          ELSE IF index1 = index2
          THEN Returned(Res("noop_swap", index1, 0, <<>>))
          ELSE LET command == SwapCellsCommand(index1, index2)
                   r == SwapCellsCommand_execute(cells, command)
               IN Recorded(r, call, Res("ok", index1, 0, <<>>),
                           Res("error", 0, 0, <<>>))

\* faulty variant: only the length of new_order is validated
reorder_cells_length_only(new_order) ==
    LET call == Call("reorder", 0, 0, new_order, FALSE, FALSE)
    IN /\ ops < MaxOps
       /\ IF active_notebook = NoNotebook
          THEN Returned(NoActive)
          ELSE IF Len(new_order) # Len(cells)
          THEN Returned(Res("error_length", 0, 0, <<>>))
          ELSE LET command == ReorderCellsCommand(new_order)
                   r == ReorderCellsCommand_execute(cells, command)
               IN Recorded(r, call, Res("ok", 0, Len(r.cells), <<>>),
                           Res("error", 0, 0, <<>>))

reorder_cells(new_order) ==
    LET call == Call("reorder", 0, 0, new_order, FALSE, FALSE)
        expected_indices == 0..(Len(cells) - 1)
        actual_indices == Range(new_order)
    IN /\ ops < MaxOps
       /\ IF active_notebook = NoNotebook
          THEN Returned(NoActive)
          ELSE IF Len(new_order) # Len(cells)
          THEN Returned(Res("error_length", 0, 0, <<>>))
          ELSE IF actual_indices # expected_indices
          THEN Returned(Res("error_order", 0, 0, <<>>))
          ELSE LET command == ReorderCellsCommand(new_order)
                   r == ReorderCellsCommand_execute(cells, command)
               IN Recorded(r, call, Res("ok", 0, Len(r.cells), <<>>),
                           Res("error", 0, 0, <<>>))

undo(steps) ==
    LET direct == undo_stack # <<>> /\ cells = snaps.undo[Len(snaps.undo)].post
        call == [Call("undo", steps, 0, <<>>, FALSE, direct) EXCEPT
                     !.top = TopOf(snaps.undo),
                     !.expect = IF snaps.undo = <<>> THEN <<>>
                                ELSE snaps.undo[Len(snaps.undo)].pre,
                     !.after_swap_noop = (result.status = "noop_swap")]
    IN IF active_notebook = NoNotebook
       THEN Returned(NoActive)
       ELSE IF ~can_undo(undo_stack)
       THEN Returned(Res("nothing_to_undo", 0, 0, <<>>))
       ELSE LET descriptions == get_undo_description(undo_stack, steps)
                r == OperationHistory_undo(cells, undo_stack, redo_stack, steps)
                m == SnapsMoved(snaps.undo, snaps.redo, r.n)
            IN /\ cells' = r.cells
               /\ undo_stack' = r.undo
               /\ redo_stack' = r.redo
               /\ snaps' = [undo |-> m.rest, redo |-> m.grown]
               /\ run' = RunUndone(steps)
               /\ last' = [call EXCEPT !.ok = ~r.raised, !.b = r.n]
               /\ result' = IF r.raised
                            THEN Res("error", 0, r.n, <<description(r.undo[Len(r.undo)])>>)
                            ELSE Res("ok", 0, r.n, SubSeq(descriptions, 1, r.n))
               /\ Written(r.io)
               /\ Saved(r.n > 0)
               /\ UNCHANGED <<max_size, ops>>

redo(steps) ==
    LET direct == redo_stack # <<>> /\ cells = snaps.redo[Len(snaps.redo)].pre
        call == [Call("redo", steps, 0, <<>>, FALSE, direct) EXCEPT
                     !.top = TopOf(snaps.redo),
                     !.expect = IF snaps.redo = <<>> THEN <<>>
                                ELSE snaps.redo[Len(snaps.redo)].post]
    IN IF active_notebook = NoNotebook
       THEN Returned(NoActive)
       ELSE IF ~can_redo(redo_stack)
       THEN Returned(Res("nothing_to_redo", 0, 0, <<>>))
       ELSE LET descriptions == get_redo_description(redo_stack, steps)
                r == OperationHistory_redo(cells, undo_stack, redo_stack, steps)
            IN /\ cells' = r.cells
               /\ undo_stack' = r.undo
               /\ redo_stack' = r.redo
               /\ snaps' = [undo |-> snaps.undo \o SnapsRedone(cells, snaps.redo, redo_stack, r.n),
                            redo |-> SubSeq(snaps.redo, 1, Len(snaps.redo) - r.n)]
               /\ run' = RunRedone(steps)
               /\ last' = [call EXCEPT !.ok = ~r.raised, !.b = r.n]
               /\ result' = IF r.raised
                            THEN Res("error", 0, r.n, <<description(r.redo[Len(r.redo)])>>)
                            ELSE Res("ok", 0, r.n, SubSeq(descriptions, 1, r.n))
               /\ Written(r.io)
               /\ Saved(r.n > 0)
               /\ UNCHANGED <<max_size, ops>>

\* ----------------------------------------------------------- execution
\* nb_info.shell.run(cell.source): the outputs of running a source (with
\* them execute_cell stores the shell's counter as execution_count)
shell_run(source) == <<source>>

\* faulty variant: the execution is recorded like an overwrite of the cell
execute_cell_recorded(cell_index, fails) ==
    IF active_notebook = NoNotebook
    THEN Returned(NoActive)
    ELSE IF cell_index < 0 \/ cell_index >= Len(cells)
    THEN Returned(Res("error_range", 0, 0, <<>>))
    ELSE LET cell == ListGet(cells, cell_index)
             command == OverwriteCellCommand(cell_index, cell.source, cell.source)
             h == add_command(undo_stack, redo_stack, max_size, command)
         IN /\ cells' = ListSet(cells, cell_index,
                                [cell EXCEPT !.outputs = shell_run(cell.source)])
            /\ undo_stack' = h.undo
            /\ redo_stack' = h.redo
            /\ snaps' = [undo |-> Append(snaps.undo, Snap(cells, cells', Call("overwrite", cell_index, 0, <<>>, TRUE, FALSE))),
                         redo |-> <<>>]
            /\ result' = Res("executed", cell_index, 0, <<>>)
            /\ run' = RunOff
            /\ Saved(TRUE)
            /\ UNCHANGED <<max_size, ops, last, outside>>

\* fails: nb_info.shell.run raises (a timeout, an interrupt, an error of
\* the shell)
execute_cell(cell_index, fails) ==
    IF active_notebook = NoNotebook
    THEN Returned(NoActive)
    ELSE IF cell_index < 0 \/ cell_index >= Len(cells)
    THEN Returned(Res("error_range", 0, 0, <<>>))
    ELSE IF ListGet(cells, cell_index).cell_type # "code"
    THEN Returned(Res("error_type", 0, 0, <<>>))
    ELSE IF fails
    THEN Returned(Res("error", 0, 0, <<>>))
    ELSE LET cell == ListGet(cells, cell_index)
         IN /\ cells' = ListSet(cells, cell_index,
                                [cell EXCEPT !.outputs = shell_run(cell.source)])
            /\ result' = IF write_fails THEN Res("error", 0, 0, <<>>)
                         ELSE Res("executed", cell_index, 0, <<>>)
            /\ run' = RunOff
            /\ Written(write_fails)
            /\ Saved(~write_fails)
            /\ UNCHANGED <<undo_stack, redo_stack, max_size, ops, last, snaps>>

\* -------------------------------------------- notebooks of the manager
\* the entry notebooks has for a name that is not open, or that is the
\* active notebook
Closed ==
    [open |-> FALSE, cells |-> <<>>, undo_stack |-> <<>>, redo_stack |-> <<>>,
     max_size |-> 0, snaps |-> [undo |-> <<>>, redo |-> <<>>], is_active |-> FALSE]

\* the NotebookInfo of the active notebook, as an entry of notebooks; its
\* is_active is True: every assignment to self.active_notebook comes with
\* is_active = True for the notebook named
ActiveInfo ==
    [open |-> TRUE, cells |-> cells, undo_stack |-> undo_stack, redo_stack |-> redo_stack,
     max_size |-> max_size, snaps |-> snaps, is_active |-> TRUE]

\* NotebookInfo(...): history = OperationHistory(max_size=100); the limit
\* is scaled to MaxHist
\* faulty variant: one OperationHistory shared by every NotebookInfo (a
\* default built once, not per instance), so a notebook that is opened
\* finds the commands recorded so far
NotebookInfo_shared_history(nb_cells) ==
    [open |-> TRUE, cells |-> nb_cells, undo_stack |-> undo_stack, redo_stack |-> redo_stack,
     max_size |-> MaxHist, snaps |-> snaps, is_active |-> TRUE]

NotebookInfo(nb_cells) ==
    [open |-> TRUE, cells |-> nb_cells, undo_stack |-> <<>>, redo_stack |-> <<>>,
     max_size |-> MaxHist, snaps |-> [undo |-> <<>>, redo |-> <<>>], is_active |-> TRUE]

\* notebook_name in self.notebooks
IsOpen(notebook_name) == notebook_name \in open_names

\* self.notebooks when the active notebook stops being the active one
Parked ==
    IF active_notebook = NoNotebook THEN notebooks
    ELSE [notebooks EXCEPT ![active_notebook] = ActiveInfo]

\* if self.active_notebook: self.notebooks[self.active_notebook].is_active
\* = False, in the entries nbs
Deactivated(nbs) ==
    IF active_notebook = NoNotebook THEN nbs
    ELSE [nbs EXCEPT ![active_notebook].is_active = FALSE]

\* nb_info.is_active of an open notebook, as list_notebooks shows it
is_active(notebook_name) ==
    IF notebook_name = active_notebook THEN ActiveInfo.is_active
    ELSE notebooks[notebook_name].is_active

\* self.active_notebook = notebook_name, with nbs the other open notebooks
Activate(notebook_name, info, nbs) ==
    /\ active_notebook' = notebook_name
    /\ cells' = info.cells
    /\ undo_stack' = info.undo_stack
    /\ redo_stack' = info.redo_stack
    /\ max_size' = info.max_size
    /\ snaps' = info.snaps
    /\ notebooks' = IF notebook_name = NoNotebook THEN nbs
                     ELSE [nbs EXCEPT ![notebook_name] = Closed]
    /\ run' = RunOff

\* read_nb(full_path) / new_nb(): read_nb gives every cell its index
NotebookRead(notebook_name, mode) ==
    IF mode = "create" THEN <<>>
    ELSE Reindex(files[notebook_name].cells)

use_notebook(notebook_name, mode) ==
    IF IsOpen(notebook_name)
    THEN Returned(Res("in_use", 0, 0, <<>>))
    ELSE IF mode \notin {"create", "connect"}
    THEN Returned(Res("error", 0, 0, <<>>))
    ELSE IF mode = "create" /\ files[notebook_name].exists
    THEN Returned(Res("already_exists", 0, 0, <<>>))
    ELSE IF mode = "connect" /\ ~files[notebook_name].exists
    THEN Returned(Res("file_not_found", 0, 0, <<>>))
    ELSE IF mode = "create" /\ write_fails
    THEN Raised
    ELSE /\ Activate(notebook_name, NotebookInfo(NotebookRead(notebook_name, mode)), Parked)
         /\ files' = IF mode = "create"
                      THEN [files EXCEPT ![notebook_name] = [exists |-> TRUE, cells |-> <<>>]]
                      ELSE files
         /\ open_names' = open_names \cup {notebook_name}
         /\ result' = Res("activated", 0, 0, <<>>)
         /\ UNCHANGED <<ops, last, write_fails, faults, rest>>

\* faulty variant: the stacks of the notebook that was active stay in use
\* for the notebook that becomes active (one history shared by all)
set_active_notebook_shared_history(notebook_name) ==
    IF ~IsOpen(notebook_name)
    THEN Returned(Res("not_found", 0, 0, <<>>))
    ELSE IF notebook_name = active_notebook
    THEN Returned(Res("now_active", 0, 0, <<>>))
    ELSE /\ active_notebook' = notebook_name
         /\ cells' = notebooks[notebook_name].cells
         /\ notebooks' = [Deactivated(Parked) EXCEPT ![notebook_name] = Closed]
         /\ run' = RunOff
         /\ result' = Res("now_active", 0, 0, <<>>)
         /\ UNCHANGED <<undo_stack, redo_stack, max_size, snaps, ops, last, write_fails, faults,
                        files, open_names, rest>>

set_active_notebook(notebook_name) ==
    IF ~IsOpen(notebook_name)
    THEN Returned(Res("not_found", 0, 0, <<>>))
    ELSE IF notebook_name = active_notebook
    THEN Returned(Res("now_active", 0, 0, <<>>))
    ELSE /\ Activate(notebook_name, notebooks[notebook_name], Deactivated(Parked))
         /\ result' = Res("now_active", 0, 0, <<>>)
         /\ UNCHANGED <<ops, last, write_fails, faults, files, open_names, rest>>

\* next(iter(self.notebooks.keys()), None) once the active notebook is
\* deleted: with two names, at most one other notebook is open
NextOpen ==
    IF \E n \in Names : notebooks[n].open
    THEN CHOOSE n \in Names : notebooks[n].open
    ELSE NoNotebook

\* faulty variant: when the active notebook is removed no other notebook
\* becomes the active one
unuse_notebook_clears_active(notebook_name) ==
    IF ~IsOpen(notebook_name)
    THEN Returned(Res("not_found", 0, 0, <<>>))
    ELSE IF write_fails
    THEN Raised
    ELSE IF notebook_name # active_notebook
    THEN /\ notebooks' = [notebooks EXCEPT ![notebook_name] = Closed]
         /\ files' = [files EXCEPT ![notebook_name] =
                          [exists |-> TRUE, cells |-> notebooks[notebook_name].cells]]
         /\ open_names' = open_names \ {notebook_name}
         /\ result' = Res("disconnected", 0, 0, <<>>)
         /\ UNCHANGED <<cells, undo_stack, redo_stack, max_size, ops, last, snaps, run,
                        active_notebook, write_fails, faults, rest>>
    ELSE /\ Activate(NoNotebook, [Closed EXCEPT !.max_size = max_size], notebooks)
         /\ files' = [files EXCEPT ![notebook_name] = [exists |-> TRUE, cells |-> cells]]
         /\ open_names' = open_names \ {notebook_name}
         /\ result' = Res("disconnected", 0, 0, <<>>)
         /\ UNCHANGED <<ops, last, write_fails, faults, rest>>

unuse_notebook(notebook_name) ==
    IF ~IsOpen(notebook_name)
    THEN Returned(Res("not_found", 0, 0, <<>>))
    ELSE IF write_fails
    THEN Raised
    ELSE IF notebook_name # active_notebook
    THEN /\ notebooks' = [notebooks EXCEPT ![notebook_name] = Closed]
         /\ files' = [files EXCEPT ![notebook_name] =
                          [exists |-> TRUE, cells |-> notebooks[notebook_name].cells]]
         /\ open_names' = open_names \ {notebook_name}
         /\ result' = Res("disconnected", 0, 0, <<>>)
         /\ UNCHANGED <<cells, undo_stack, redo_stack, max_size, ops, last, snaps, run,
                        active_notebook, write_fails, faults, rest>>
    ELSE /\ IF NextOpen = NoNotebook
            THEN Activate(NoNotebook, [Closed EXCEPT !.max_size = max_size], notebooks)
            ELSE Activate(NextOpen, notebooks[NextOpen], notebooks)
         /\ files' = [files EXCEPT ![notebook_name] = [exists |-> TRUE, cells |-> cells]]
         /\ open_names' = open_names \ {notebook_name}
         /\ result' = Res("disconnected", 0, 0, <<>>)
         /\ UNCHANGED <<ops, last, write_fails, faults, rest>>

\* the number of commands 'recent_operations' is cut to: undo_stack[-10:]
RecentCount == 10

\* faulty variant: the oldest commands are listed instead of the newest
get_history_summary_oldest(us, rs) ==
    [undo_count |-> Len(us),
     redo_count |-> Len(rs),
     can_undo |-> can_undo(us),
     can_redo |-> can_redo(rs),
     recent_operations |->
         [i \in 1..Min(RecentCount, Len(us)) |-> description(us[i])]]

get_history_summary(us, rs) ==
    [undo_count |-> Len(us),
     redo_count |-> Len(rs),
     can_undo |-> can_undo(us),
     can_redo |-> can_redo(rs),
     recent_operations |->
         LET recent == SubSeq(us, Max(1, Len(us) - RecentCount + 1), Len(us))
         IN [i \in 1..Len(recent) |-> description(recent[i])]]

get_history ==
    IF active_notebook = NoNotebook
    THEN Returned(NoActive)
    ELSE LET summary == get_history_summary(undo_stack, redo_stack)
         IN Returned(Res("history", summary.redo_count, summary.undo_count,
                         summary.recent_operations))

\* faulty variant: only the undo stack is emptied
clear_history_keeps_redo ==
    IF active_notebook = NoNotebook
    THEN Returned(NoActive)
    ELSE /\ undo_stack' = <<>>
         /\ snaps' = [snaps EXCEPT !.undo = <<>>]
         /\ run' = RunOff
         /\ result' = Res("cleared", 0, 0, <<>>)
         /\ UNCHANGED <<cells, redo_stack, max_size, ops, last, outside, files>>

clear_history ==
    IF active_notebook = NoNotebook
    THEN Returned(NoActive)
    ELSE /\ undo_stack' = <<>>
         /\ redo_stack' = <<>>
         /\ snaps' = [undo |-> <<>>, redo |-> <<>>]
         /\ run' = RunOff
         /\ result' = Res("cleared", 0, 0, <<>>)
         /\ UNCHANGED <<cells, max_size, ops, last, outside, files>>

\* ------------------------------------------------------------ inputs
\* the file of notebook A before the session: three code cells
SavedCells == [i \in 1..Len(InitSources) |-> mk_cell(InitSources[i], "code")]

\* the notebooks a session starts from: read_nb gives every cell its index
InitDocs ==
    {Reindex([i \in 1..n |-> mk_cell(InitSources[i], "code")]) : n \in {0, Len(InitSources)}}

\* arguments of insert_cell: every index from two before the start to one
\* past the end (with the append sentinel -1), and one unknown cell type
InsertInputs(n) ==
    {<<i, "code">> : i \in (-2)..(n + 1)} \cup {<<-1, "raw">>}

\* index lists of delete_cell: up to two valid indices in either order,
\* a repeated index, the empty list and two out-of-range lists
DeleteInputs(n) ==
    {<<>>, <<n>>, <<-1>>}
        \cup {<<i>> : i \in 0..(n - 1)}
        \cup {<<i, j>> : i, j \in 0..(n - 1)}

\* index pairs of move_cell / swap_cells: all in-range pairs and three
\* pairs with an index out of range
PairInputs(n) ==
    ((0..(n - 1)) \X (0..(n - 1))) \cup {<<n, 0>>, <<0, n>>, <<-1, 0>>}

Perms(n) ==
    {p \in [1..n -> 0..(n - 1)] : \A i, j \in 1..n : p[i] = p[j] => i = j}

\* orders of reorder_cells: every permutation, one list too long, one with
\* a repeated index (and so a missing one), and one with the index n, which
\* is out of range
ReorderInputs(n) ==
    Perms(n) \cup {[i \in 1..(n + 1) |-> 0]} \cup {[i \in 1..n |-> 0]}
        \cup {[i \in 1..n |-> i]}

Init ==
    /\ cells \in InitDocs
    /\ undo_stack = <<>>
    /\ redo_stack = <<>>
    /\ max_size \in {1, MaxHist}
    /\ result = Res("ok", 0, 0, <<>>)
    /\ ops = 0
    /\ last = [op |-> "init", a |-> 0, b |-> 0, list |-> <<>>, ok |-> TRUE,
               direct |-> FALSE, top |-> NoTop, expect |-> <<>>,
               after_swap_noop |-> FALSE]
    /\ snaps = [undo |-> <<>>, redo |-> <<>>]
    /\ run = [phase |-> "ops", k |-> 0, s0 |-> cells, sk |-> cells]
    /\ active_notebook = "A"
    /\ notebooks = [n \in Names |-> Closed]
    /\ write_fails = FALSE
    /\ faults = 0
    /\ files = [n \in Names |-> IF n = "A" THEN [exists |-> TRUE, cells |-> cells]
                                ELSE NoFile]
    /\ open_names = {"A"}
    /\ SingleThreaded
    /\ dialog = NoDialog

Next ==
    \/ \E p \in InsertInputs(Len(cells)), src \in InsertSources :
           insert_cell(p[1], p[2], src)
    \/ \E i \in 0..Len(cells), src \in OverwriteSources : overwrite_cell_source(i, src)
    \/ \E l \in DeleteInputs(Len(cells)) : delete_cell(l)
    \/ \E p \in PairInputs(Len(cells)) : move_cell(p[1], p[2])
    \/ \E p \in PairInputs(Len(cells)) : swap_cells(p[1], p[2])
    \/ \E o \in ReorderInputs(Len(cells)) : reorder_cells(o)
    \/ \E n \in 1..MaxSteps : undo(n)
    \/ \E n \in 1..MaxSteps : redo(n)

Spec == Init /\ [][Next]_vars

\* ------------------------------------- the manager with several notebooks
\* a manager as constructed: no notebook open, none active
InitManager ==
    /\ cells = <<>>
    /\ undo_stack = <<>>
    /\ redo_stack = <<>>
    /\ max_size = MaxHist
    /\ result = Res("ok", 0, 0, <<>>)
    /\ ops = 0
    /\ last = [op |-> "init", a |-> 0, b |-> 0, list |-> <<>>, ok |-> TRUE,
               direct |-> FALSE, top |-> NoTop, expect |-> <<>>,
               after_swap_noop |-> FALSE]
    /\ snaps = [undo |-> <<>>, redo |-> <<>>]
    /\ run = RunOff
    /\ active_notebook = NoNotebook
    /\ notebooks = [n \in Names |-> Closed]
    /\ write_fails = FALSE
    /\ faults = 0
    /\ files = [n \in Names |-> IF n = "A" THEN [exists |-> TRUE, cells |-> SavedCells]
                                ELSE NoFile]
    /\ open_names = {}
    /\ SingleThreaded
    /\ dialog = NoDialog

\* one call of each mutation, with in-range arguments where the cells allow
MgrInsert == \E i \in {-1, 0} : insert_cell(i, "code", "x")

MgrOverwrite == overwrite_cell_source(0, "x")

MgrDelete == delete_cell(<<0>>)

MgrMove == move_cell(0, 1)

MgrSwap == swap_cells(0, 1)

MgrReorder == reorder_cells(Reverse(RangeList(Len(cells))))

MgrUndo == \E n \in 1..MaxSteps : undo(n)

MgrRedo == \E n \in 1..MaxSteps : redo(n)

MgrUse == \E name \in Names, mode \in {"create", "connect"} : use_notebook(name, mode)

MgrSetActive == \E name \in Names : set_active_notebook(name)

MgrUnuse == \E name \in Names : unuse_notebook(name)

MgrGetHistory == get_history

MgrClearHistory == clear_history

NextManager ==
    \/ MgrInsert
    \/ MgrOverwrite
    \/ MgrDelete
    \/ MgrMove
    \/ MgrSwap
    \/ MgrReorder
    \/ MgrUndo
    \/ MgrRedo
    \/ MgrUse
    \/ MgrSetActive
    \/ MgrUnuse
    \/ MgrGetHistory
    \/ MgrClearHistory

SpecManager == InitManager /\ [][NextManager]_vars

\* ------------------------------------- one notebook whose cells are run
\* as Init, with the notebook of three cells and the one history limit of
\* NotebookInfo
InitExecute ==
    /\ cells = Reindex(SavedCells)
    /\ undo_stack = <<>>
    /\ redo_stack = <<>>
    /\ max_size = MaxHist
    /\ result = Res("ok", 0, 0, <<>>)
    /\ ops = 0
    /\ last = [op |-> "init", a |-> 0, b |-> 0, list |-> <<>>, ok |-> TRUE,
               direct |-> FALSE, top |-> NoTop, expect |-> <<>>,
               after_swap_noop |-> FALSE]
    /\ snaps = [undo |-> <<>>, redo |-> <<>>]
    /\ run = RunOff
    /\ active_notebook = "A"
    /\ notebooks = [n \in Names |-> Closed]
    /\ write_fails = FALSE
    /\ faults = 0
    /\ files = [n \in Names |-> IF n = "A" THEN [exists |-> TRUE, cells |-> cells]
                                ELSE NoFile]
    /\ open_names = {"A"}
    /\ SingleThreaded
    /\ dialog = NoDialog

NextExecute ==
    \* structural calls with in-range arguments
    \/ \E i \in {-1, 0} : insert_cell(i, "code", "x")
    \/ overwrite_cell_source(0, "x")
    \/ delete_cell(<<0>>)
    \/ \E n \in 1..MaxSteps : undo(n)
    \/ \E n \in 1..MaxSteps : redo(n)
    \* the first cell, the second one, and an index past the end
    \/ \E i \in {0, 1, Len(cells)}, fails \in BOOLEAN : execute_cell(i, fails)

SpecExecute == InitExecute /\ [][NextExecute]_vars

\* ------------------------------- one notebook whose file may be unwritable
\* as Init
InitDisk ==
    /\ cells \in InitDocs
    /\ undo_stack = <<>>
    /\ redo_stack = <<>>
    /\ max_size = MaxHist
    /\ result = Res("ok", 0, 0, <<>>)
    /\ ops = 0
    /\ last = [op |-> "init", a |-> 0, b |-> 0, list |-> <<>>, ok |-> TRUE,
               direct |-> FALSE, top |-> NoTop, expect |-> <<>>,
               after_swap_noop |-> FALSE]
    /\ snaps = [undo |-> <<>>, redo |-> <<>>]
    /\ run = RunOff
    /\ active_notebook = "A"
    /\ notebooks = [n \in Names |-> Closed]
    /\ write_fails = FALSE
    /\ faults = 0
    /\ files = [n \in Names |-> IF n = "A" THEN [exists |-> TRUE, cells |-> cells]
                                ELSE NoFile]
    /\ open_names = {"A"}
    /\ SingleThreaded
    /\ dialog = NoDialog

\* the environment: the notebook's file stops being writable (permissions,
\* a removed directory, a full disk) for the next write_nb
DiskChanges ==
    /\ ~write_fails
    /\ faults < MaxFaults
    /\ write_fails' = TRUE
    /\ faults' = faults + 1
    /\ UNCHANGED <<cells, undo_stack, redo_stack, max_size, result, ops, last, snaps, run,
                   active_notebook, notebooks, files, open_names, rest>>

NextDisk ==
    \/ DiskChanges
    \/ \E i \in {-2, -1} : insert_cell(i, "code", "x")
    \/ overwrite_cell_source(0, "x")
    \/ delete_cell(<<0>>)
    \/ move_cell(0, 1)
    \/ swap_cells(0, 1)
    \/ reorder_cells(Reverse(RangeList(Len(cells))))
    \/ \E n \in 1..MaxSteps : undo(n)
    \/ \E n \in 1..MaxSteps : redo(n)

SpecDisk == InitDisk /\ [][NextDisk]_vars

\* ------------------------ one manager called by several threads at once
\* Each action is one statement of use_notebook, unuse_notebook or
\* set_active_notebook run by thread t; threads[t] holds the arguments of
\* the call and the statement it is at. The cells and the history of the
\* notebooks are those of a session in which insert_cell(-1, "code", "x")
\* was called on notebook A.
InitThreads ==
    LET command == InsertCellCommand(-1, "code", "x")
        call == Call("insert", -1, 0, <<>>, TRUE, FALSE)
        r == InsertCellCommand_execute(Reindex(SavedCells), command)
    IN /\ active_notebook = "A"
       /\ write_fails = FALSE
       /\ cells = r.cells
       /\ undo_stack = <<r.cmd>>
       /\ redo_stack = <<>>
       /\ max_size = MaxHist
       /\ result = Res("ok", 3, 0, <<>>)
       /\ ops = 1
       /\ last = call
       /\ snaps = [undo |-> <<Snap(Reindex(SavedCells), r.cells, call)>>, redo |-> <<>>]
       /\ run = RunOff
       /\ notebooks = [n \in Names |-> Closed]
       /\ faults = 0
       /\ files = [n \in Names |-> IF n = "A" THEN [exists |-> TRUE, cells |-> r.cells]
                                   ELSE NoFile]
       /\ open_names = {"A"}
       /\ SingleThreaded
       /\ dialog = NoDialog

\* what no statement of the three methods touches
ThreadFrame == UNCHANGED <<ops, last, write_fails, faults, dialog>>

\* the cells and the history the variables hold stay the same
SameActive == UNCHANGED <<active_notebook, cells, undo_stack, redo_stack, max_size, snaps, run>>

\* thread t leaves its call
Return(t, res) ==
    /\ threads' = [threads EXCEPT ![t].pc = "idle"]
    /\ result' = res

\* thread t goes on to the statement at
Goto(t, at) ==
    /\ threads' = [threads EXCEPT ![t].pc = at]
    /\ UNCHANGED result

\* self.notebooks without the entry of the active notebook, once another
\* name becomes the active one: the entry it had, if it still has one
ParkedIfOpen ==
    IF active_notebook \in open_names
    THEN [notebooks EXCEPT ![active_notebook] = ActiveInfo]
    ELSE notebooks

\* self.notebooks[name] for a name that may have no entry
Entry(notebook_name) ==
    IF notebook_name \in open_names THEN notebooks[notebook_name]
    ELSE [Closed EXCEPT !.max_size = max_size]

\* thread t calls use_notebook(notebook_name, mode)
use_notebook_call(t, notebook_name, mode) ==
    /\ threads[t].pc = "idle"
    /\ threads' = [threads EXCEPT ![t] = [pc |-> "use_lock", notebook_name |-> notebook_name,
                                          mode |-> mode]]
    /\ SameActive
    /\ ThreadFrame
    /\ UNCHANGED <<lock, result, notebooks, open_names, files>>

\* faulty variant: the method body is not under "with self._lock"
use_notebook_enter_unlocked(t) ==
    /\ threads[t].pc = "use_lock"
    /\ Goto(t, "use_check")
    /\ SameActive
    /\ ThreadFrame
    /\ UNCHANGED <<lock, notebooks, open_names, files>>

\* use_notebook: with self._lock, which waits until the lock is free
use_notebook_enter(t) ==
    /\ threads[t].pc = "use_lock"
    /\ lock = Unlocked
    /\ lock' = t
    /\ Goto(t, "use_check")
    /\ SameActive
    /\ ThreadFrame
    /\ UNCHANGED <<notebooks, open_names, files>>

\* use_notebook: the checks of the name, the mode and the file, and
\* new_nb(); write_nb(nb, full_path) in create mode
use_notebook_check(t) ==
    LET notebook_name == threads[t].notebook_name
        mode == threads[t].mode
    IN /\ threads[t].pc = "use_check"
       /\ SameActive
       /\ ThreadFrame
       /\ UNCHANGED <<notebooks, open_names>>
       /\ IF notebook_name \in open_names
          THEN Return(t, Res("in_use", 0, 0, <<>>)) /\ lock' = Unlocked /\ UNCHANGED files
          ELSE IF mode = "create" /\ files[notebook_name].exists
          THEN Return(t, Res("already_exists", 0, 0, <<>>)) /\ lock' = Unlocked /\ UNCHANGED files
          ELSE IF mode = "connect" /\ ~files[notebook_name].exists
          THEN Return(t, Res("file_not_found", 0, 0, <<>>)) /\ lock' = Unlocked /\ UNCHANGED files
          ELSE /\ Goto(t, "use_store")
               /\ files' = IF mode = "create"
                            THEN [files EXCEPT ![notebook_name] = [exists |-> TRUE, cells |-> <<>>]]
                            ELSE files
               /\ UNCHANGED lock

\* use_notebook: self.notebooks[notebook_name] = nb_info
use_notebook_store(t) ==
    LET notebook_name == threads[t].notebook_name
        nb_info == NotebookInfo(Reindex(files[notebook_name].cells))
    IN /\ threads[t].pc = "use_store"
       /\ open_names' = open_names \cup {notebook_name}
       /\ IF notebook_name = active_notebook
          THEN Activate(notebook_name, nb_info, notebooks)
          ELSE /\ notebooks' = [notebooks EXCEPT ![notebook_name] = nb_info]
               /\ SameActive
       /\ Goto(t, "use_activate")
       /\ ThreadFrame
       /\ UNCHANGED <<lock, files>>

\* use_notebook: self.active_notebook = notebook_name, and the return
\* that releases the lock
use_notebook_activate(t) ==
    LET notebook_name == threads[t].notebook_name
    IN /\ threads[t].pc = "use_activate"
       /\ IF notebook_name = active_notebook
          THEN SameActive /\ UNCHANGED notebooks
          ELSE Activate(notebook_name, Entry(notebook_name), ParkedIfOpen)
       /\ Return(t, Res("activated", 0, 0, <<>>))
       /\ lock' = Unlocked
       /\ ThreadFrame
       /\ UNCHANGED <<open_names, files>>

\* thread t calls unuse_notebook(notebook_name)
unuse_notebook_call(t, notebook_name) ==
    /\ threads[t].pc = "idle"
    /\ threads' = [threads EXCEPT ![t] = [pc |-> "unuse_lock", notebook_name |-> notebook_name,
                                          mode |-> "connect"]]
    /\ SameActive
    /\ ThreadFrame
    /\ UNCHANGED <<lock, result, notebooks, open_names, files>>

\* unuse_notebook: with self._lock, which waits until the lock is free
unuse_notebook_enter(t) ==
    /\ threads[t].pc = "unuse_lock"
    /\ lock = Unlocked
    /\ lock' = t
    /\ Goto(t, "unuse_check")
    /\ SameActive
    /\ ThreadFrame
    /\ UNCHANGED <<notebooks, open_names, files>>

\* unuse_notebook: the check of the name, and write_nb(nb_info.notebook,
\* nb_info.path)
unuse_notebook_check(t) ==
    LET notebook_name == threads[t].notebook_name
    IN /\ threads[t].pc = "unuse_check"
       /\ SameActive
       /\ ThreadFrame
       /\ UNCHANGED <<notebooks, open_names>>
       /\ IF notebook_name \notin open_names
          THEN Return(t, Res("not_found", 0, 0, <<>>)) /\ lock' = Unlocked /\ UNCHANGED files
          ELSE /\ Goto(t, "unuse_del")
               /\ files' = [files EXCEPT ![notebook_name] =
                                [exists |-> TRUE,
                                 cells |-> IF notebook_name = active_notebook THEN cells
                                           ELSE notebooks[notebook_name].cells]]
               /\ UNCHANGED lock

\* unuse_notebook: del self.notebooks[notebook_name]
unuse_notebook_del(t) ==
    LET notebook_name == threads[t].notebook_name
    IN /\ threads[t].pc = "unuse_del"
       /\ open_names' = open_names \ {notebook_name}
       /\ IF notebook_name = active_notebook
          THEN Activate(notebook_name, [Closed EXCEPT !.max_size = max_size], notebooks)
          ELSE /\ notebooks' = [notebooks EXCEPT ![notebook_name] = Closed]
               /\ SameActive
       /\ Goto(t, "unuse_next")
       /\ ThreadFrame
       /\ UNCHANGED <<lock, files>>

\* unuse_notebook: if self.active_notebook == notebook_name:
\* self.active_notebook = next(iter(self.notebooks.keys()), None), and the
\* return that releases the lock
unuse_notebook_next(t) ==
    LET notebook_name == threads[t].notebook_name
    IN /\ threads[t].pc = "unuse_next"
       /\ IF notebook_name # active_notebook
          THEN SameActive /\ UNCHANGED notebooks
          ELSE IF open_names = {}
          THEN Activate(NoNotebook, [Closed EXCEPT !.max_size = max_size], notebooks)
          ELSE LET next == CHOOSE n \in open_names : TRUE
               IN Activate(next, notebooks[next], notebooks)
       /\ Return(t, Res("disconnected", 0, 0, <<>>))
       /\ lock' = Unlocked
       /\ ThreadFrame
       /\ UNCHANGED <<open_names, files>>

\* set_active_notebook: if notebook_name not in self.notebooks: return
set_active_notebook_check(t, notebook_name) ==
    /\ threads[t].pc = "idle"
    /\ IF notebook_name \notin open_names
       THEN /\ threads' = [threads EXCEPT ![t] = [pc |-> "idle", notebook_name |-> notebook_name,
                                                  mode |-> "connect"]]
            /\ result' = Res("not_found", 0, 0, <<>>)
       ELSE /\ threads' = [threads EXCEPT ![t] = [pc |-> "set_deactivate",
                                                  notebook_name |-> notebook_name,
                                                  mode |-> "connect"]]
            /\ UNCHANGED result
    /\ SameActive
    /\ ThreadFrame
    /\ UNCHANGED <<lock, notebooks, open_names, files>>

\* set_active_notebook: if self.active_notebook:
\* self.notebooks[self.active_notebook].is_active = False, a KeyError when
\* the active name has no entry
set_active_notebook_deactivate(t) ==
    /\ threads[t].pc = "set_deactivate"
    /\ IF active_notebook # NoNotebook /\ active_notebook \notin open_names
       THEN Return(t, Res("raised", 0, 0, <<>>))
       ELSE Goto(t, "set_assign")
    /\ SameActive
    /\ ThreadFrame
    /\ UNCHANGED <<lock, notebooks, open_names, files>>

\* set_active_notebook: self.active_notebook = notebook_name
set_active_notebook_assign(t) ==
    LET notebook_name == threads[t].notebook_name
    IN /\ threads[t].pc = "set_assign"
       /\ IF notebook_name = active_notebook
          THEN SameActive /\ UNCHANGED notebooks
          ELSE Activate(notebook_name, Entry(notebook_name), Deactivated(ParkedIfOpen))
       /\ Goto(t, "set_flag")
       /\ ThreadFrame
       /\ UNCHANGED <<lock, open_names, files>>

\* set_active_notebook: self.notebooks[notebook_name].is_active = True, a
\* KeyError when the name has no entry, and the return
set_active_notebook_flag(t) ==
    LET notebook_name == threads[t].notebook_name
    IN /\ threads[t].pc = "set_flag"
       /\ IF notebook_name \notin open_names
          THEN Return(t, Res("raised", 0, 0, <<>>))
          ELSE Return(t, Res("now_active", 0, 0, <<>>))
       /\ SameActive
       /\ ThreadFrame
       /\ UNCHANGED <<lock, notebooks, open_names, files>>

NextThreads ==
    \/ \E t \in Threads, name \in Names, mode \in {"create", "connect"} :
           use_notebook_call(t, name, mode)
    \/ \E t \in Threads, name \in Names : unuse_notebook_call(t, name)
    \/ \E t \in Threads : use_notebook_enter(t)
    \/ \E t \in Threads : use_notebook_check(t)
    \/ \E t \in Threads : use_notebook_store(t)
    \/ \E t \in Threads : use_notebook_activate(t)
    \/ \E t \in Threads : unuse_notebook_enter(t)
    \/ \E t \in Threads : unuse_notebook_check(t)
    \/ \E t \in Threads : unuse_notebook_del(t)
    \/ \E t \in Threads : unuse_notebook_next(t)
    \/ \E t \in Threads, name \in Names : set_active_notebook_check(t, name)
    \/ \E t \in Threads : set_active_notebook_deactivate(t)
    \/ \E t \in Threads : set_active_notebook_assign(t)
    \/ \E t \in Threads : set_active_notebook_flag(t)

SpecThreads == InitThreads /\ [][NextThreads]_vars

\* ====================================================== properties
MutationOps == {"insert", "delete", "overwrite", "move", "swap", "reorder"}

\* the last call was a mutation whose command was executed and recorded
MutationDone == last.op \in MutationOps /\ last.ok

\* the snapshot of the command on top of a stack
TopSnap(stack) == stack[Len(stack)]

\* C1: from a document S0 with an empty history, after k <= max_size
\* recorded operations with in-range arguments, undo(steps=k) leaves
\* exactly S0, and the redo(steps=k) that follows leaves exactly the cells
\* the k operations had produced.
C1_UndoAllRedoAll ==
    /\ (run.phase = "undone" /\ run.k <= max_size) => cells = run.s0
    /\ (run.phase = "redone" /\ run.k <= max_size) => cells = run.sk

\* two operations of different kinds, both undone and redone, on a document
\* they changed
C1_Witness ==
    /\ run.phase = "redone"
    /\ run.k = 2
    /\ max_size = 2
    /\ snaps.undo[1].op = "insert"
    /\ snaps.undo[2].op = "move"
    /\ cells = run.sk
    /\ cells # run.s0

\* C2: for every command kind, with no other command in between, undo then
\* redo gives the cells the execute had produced and redo then undo gives
\* the cells from before the execute, however often the two alternate:
\* a one-step undo from the cells the command left restores the cells from
\* before it, and a one-step redo from those restores the cells after it.
C2_UndoRedoExact ==
    /\ (last.op = "undo" /\ last.a = 1 /\ last.direct)
           => (last.ok /\ cells = last.expect)
    /\ (last.op = "redo" /\ last.a = 1 /\ last.direct)
           => (last.ok /\ cells = last.expect)

\* a redo is being called
RedoCalled == \E n \in 1..MaxSteps : redo(n)

\* C3: a recorded mutation leaves the redo stack empty, whatever undos came
\* before it, and a redo called next reports that there is nothing to redo
\* and changes neither the cells nor the stacks.
C3_RedoInvalidated ==
    [][/\ MutationDone' => redo_stack' = <<>>
       /\ (MutationDone /\ RedoCalled)
              => /\ result'.status = "nothing_to_redo"
                 /\ UNCHANGED <<cells, undo_stack, redo_stack>>]_vars

\* a mutation recorded after an undo (two operations, no eviction, yet one
\* command on the undo stack), followed by a redo call
C3_Witness ==
    /\ MutationDone
    /\ ops = 2
    /\ max_size = 2
    /\ Len(undo_stack) = 1
    /\ redo_stack = <<>>
    /\ result.status = "nothing_to_redo"

\* the last call was a one-step undo of a command created by request op,
\* called on the cells that command had left
UndoneDirectly(op) ==
    /\ last.op = "undo"
    /\ last.a = 1
    /\ last.direct
    /\ last.top.op = op

\* the indices a document of n cells has
Indices(n) == 0..(n - 1)

\* the items of s whose list index (i for the head) is not in I, in order
RECURSIVE Without(_, _, _)
Without(s, I, i) ==
    IF s = <<>> THEN <<>>
    ELSE (IF i \in I THEN <<>> ELSE <<Head(s)>>) \o Without(Tail(s), I, i + 1)

\* C4: delete_cell with valid indices, listed in any order, removes exactly
\* the cells at those indices and keeps the others in order; one undo puts
\* every removed cell back at its index, giving the cells from before the
\* delete whatever the listing order was.
C4_DeleteUndoRestores ==
    /\ (last.op = "delete" /\ last.ok)
           => cells = Reindex(Without(TopSnap(snaps.undo).pre, Range(last.list), 0))
    /\ (UndoneDirectly("delete") /\ Range(last.top.list) \subseteq Indices(Len(last.expect)))
           => (last.ok /\ cells = last.expect)

\* two cells of three deleted, listed in ascending order, and restored
C4_Witness ==
    /\ UndoneDirectly("delete")
    /\ Len(last.top.list) = 2
    /\ last.top.list[1] < last.top.list[2]
    /\ Len(cells) = 3
    /\ Len(TopSnap(snaps.redo).post) = 1
    /\ cells = TopSnap(snaps.redo).pre

\* C5: reorder_cells with any permutation followed by undo gives the cells
\* from before the reorder; this holds for each of several reorders undone
\* one by one, each undo starting from the cells its reorder had left.
C5_ReorderUndoRestores ==
    (/\ UndoneDirectly("reorder")
     /\ Len(last.top.list) = Len(last.expect)
     /\ Range(last.top.list) = Indices(Len(last.expect)))
        => (last.ok /\ cells = last.expect)

\* two reorders in succession (a reversal, then a permutation that is not
\* its own inverse), undone one by one
C5_Witness ==
    /\ UndoneDirectly("reorder")
    /\ Len(snaps.redo) = 2
    /\ snaps.redo[2].op = "reorder"
    /\ snaps.redo[2].list = <<2, 1, 0>>
    /\ snaps.redo[1].op = "reorder"
    /\ snaps.redo[1].list = <<1, 2, 0>>
    /\ snaps.redo[1].pre = snaps.redo[2].post
    /\ cells = snaps.redo[2].pre

\* C6: move_cell(a, b) with a # b in range, followed by undo, gives the cells
\* from before the move.
C6_MoveUndoRestores ==
    (/\ UndoneDirectly("move")
     /\ {last.top.a, last.top.b} \subseteq Indices(Len(last.expect))
     /\ last.top.a # last.top.b)
        => (last.ok /\ cells = last.expect)

\* a move over more than one position, undone
C6_Witness ==
    /\ UndoneDirectly("move")
    /\ last.top.a = 2
    /\ last.top.b = 0
    /\ cells = TopSnap(snaps.redo).pre
    /\ cells # TopSnap(snaps.redo).post

\* the last call was swap_cells(a, b), recorded right after a swap_cells
\* with the same arguments
SwappedTwice ==
    /\ last.op = "swap"
    /\ last.ok
    /\ Len(snaps.undo) >= 2
    /\ LET n == Len(snaps.undo)
       IN /\ snaps.undo[n - 1].op = "swap"
          /\ snaps.undo[n - 1].a = last.a
          /\ snaps.undo[n - 1].b = last.b
          /\ snaps.undo[n - 1].post = snaps.undo[n].pre

\* C7 as stated, equal indices included: swap(a, b) twice gives the original
\* cells, and swap(a, b) followed by undo gives the same cells as the two
\* swaps, i.e. the original ones; for a = b these are the cells the undo
\* was called on.
C7_SwapUndoAnyIndices ==
    /\ SwappedTwice => cells = snaps.undo[Len(snaps.undo) - 1].pre
    /\ (UndoneDirectly("swap") /\ {last.top.a, last.top.b} \subseteq Indices(Len(last.expect)))
           => (last.ok /\ cells = last.expect)
    /\ (last.op = "undo" /\ last.a = 1 /\ last.direct /\ last.after_swap_noop /\ last.ok)
           => cells = TopSnap(snaps.redo).post

\* C7 (amended): swap(a, b) twice gives the original cells for all in-range
\* a and b; for a # b, swap(a, b) followed by undo gives those cells too.
\* (swap(a, a) records no command, so an undo after it reverts an earlier
\* operation.)
C7_SwapInvolution ==
    /\ SwappedTwice => cells = snaps.undo[Len(snaps.undo) - 1].pre
    /\ (UndoneDirectly("swap") /\ {last.top.a, last.top.b} \subseteq Indices(Len(last.expect)))
           => (last.ok /\ cells = last.expect)

\* the same swap twice on three cells
C7_Witness ==
    /\ SwappedTwice
    /\ last.a = 0
    /\ last.b = 2
    /\ Len(cells) = 3
    /\ cells = snaps.undo[1].pre
    /\ cells # snaps.undo[1].post

\* the last call was delete_cell([i]), recorded right after insert_cell(i, X)
\* with 0 <= i <= len
InsertedThenDeleted ==
    /\ last.op = "delete"
    /\ last.ok
    /\ Len(last.list) = 1
    /\ Len(snaps.undo) >= 2
    /\ LET n == Len(snaps.undo)
       IN /\ snaps.undo[n - 1].op = "insert"
          /\ snaps.undo[n - 1].a = last.list[1]
          /\ snaps.undo[n - 1].a \in 0..Len(snaps.undo[n - 1].pre)
          /\ snaps.undo[n - 1].post = snaps.undo[n].pre

\* C8: insert_cell(i, X) with 0 <= i <= len followed by delete_cell([i])
\* leaves the cells as they were before the insert.
C8_InsertDeleteInverse ==
    InsertedThenDeleted => cells = snaps.undo[Len(snaps.undo) - 1].pre

\* an insert in the middle of three cells, deleted again
C8_Witness ==
    /\ InsertedThenDeleted
    /\ last.list = <<1>>
    /\ Len(cells) = 3
    /\ cells = snaps.undo[1].pre

\* C9: for every index insert_cell accepts and executes, undo of the insert
\* removes exactly the inserted cell, giving the cells from before it.
C9_InsertUndoAnyIndex ==
    UndoneDirectly("insert") => (last.ok /\ cells = last.expect)

\* the last call was insert_cell(-1, ...), recorded
Appended == last.op = "insert" /\ last.a = -1 /\ last.ok

\* C10: insert_cell(-1, ...) puts the new cell last; the command keeps the
\* length before the insert as its index, the call reports that index, the
\* description shows it, and undo removes the cell at it.
C10_AppendResolved ==
    /\ Appended =>
           LET pre == TopSnap(snaps.undo).pre
               command == undo_stack[Len(undo_stack)]
           IN /\ cells = Reindex(pre \o <<mk_cell(command.cell_source, command.cell_type)>>)
              /\ command.cell_index = Len(pre)
              /\ description(command).a = Len(pre)
              /\ result.status = "ok" => result.index = Len(pre)
    /\ (UndoneDirectly("insert") /\ last.top.a = -1) =>
           /\ last.ok
           /\ LET command == redo_stack[Len(redo_stack)]
              IN /\ command.cell_index >= 0
                 /\ cells = Reindex(ListDel(TopSnap(snaps.redo).post, command.cell_index))
                 /\ cells = last.expect
                 /\ result.status = "ok" =>
                        result.descs = <<Desc("Insert", command.cell_type, command.cell_index, 0, <<>>)>>

\* an append to three cells, reported at index 3 and undone
C10_Witness ==
    /\ UndoneDirectly("insert")
    /\ last.top.a = -1
    /\ Len(cells) = 3
    /\ result.status = "ok"
    /\ result.descs[1].a = 3

\* the top k items of a stack, top first
TopFirst(stack, k) == [i \in 1..k |-> stack[Len(stack) - (i - 1)]]

\* C11: unless a command raises (the case of C18), undo(steps=n) with m
\* commands on the undo stack undoes min(n, m) of them, the most recent
\* first, moves exactly those to the redo stack in that order and reports
\* their descriptions most recent first, without an error when n > m;
\* redo(steps=n) does the same with the stacks exchanged.
C11_StepsClamped ==
    [][\A n \in 1..MaxSteps :
          /\ (undo(n) /\ can_undo(undo_stack) /\ last'.ok) =>
                 LET m == Len(undo_stack)
                     k == Min(n, m)
                 IN /\ result'.status = "ok"
                    /\ result'.n = k
                    /\ undo_stack' = SubSeq(undo_stack, 1, m - k)
                    /\ redo_stack' = redo_stack \o TopFirst(undo_stack, k)
                    /\ result'.descs = [i \in 1..k |-> description(TopFirst(undo_stack, k)[i])]
          /\ (redo(n) /\ can_redo(redo_stack) /\ last'.ok) =>
                 LET m == Len(redo_stack)
                     k == Min(n, m)
                 IN /\ result'.status = "ok"
                    /\ result'.n = k
                    /\ redo_stack' = SubSeq(redo_stack, 1, m - k)
                    /\ Len(undo_stack') = Len(undo_stack) + k
                    /\ SubSeq(undo_stack', 1, Len(undo_stack)) = undo_stack
                    /\ \A i \in 1..k :
                           undo_stack'[Len(undo_stack) + i].kind = TopFirst(redo_stack, k)[i].kind
                    /\ result'.descs = [i \in 1..k |-> description(TopFirst(redo_stack, k)[i])]
      ]_vars

\* undo(steps=2) with one command left on the undo stack, after an undo
\* that had already moved one command to the redo stack
C11_Witness ==
    /\ last.op = "undo"
    /\ last.a = 2
    /\ last.b = 1
    /\ last.ok
    /\ result.status = "ok"
    /\ Len(result.descs) = 1
    /\ undo_stack = <<>>
    /\ Len(redo_stack) = 2

Rejected ==
    /\ result'.status = "error"
    /\ UNCHANGED <<cells, undo_stack, redo_stack>>

\* C13: insert, delete, overwrite, move and swap called with an index
\* outside the current range of the cells (for insert: not in 0..len and
\* not the append sentinel -1) return an error and leave the cells, the undo
\* stack and the redo stack unchanged.
C13_OutOfRangeRejected ==
    [][LET n == Len(cells)
           out(i) == i < 0 \/ i >= n
       IN /\ \A p \in InsertInputs(n), src \in InsertSources :
                 (insert_cell(p[1], p[2], src) /\ p[1] \notin (-1)..n) => Rejected
          /\ \A i \in 0..n, src \in OverwriteSources :
                 (overwrite_cell_source(i, src) /\ out(i)) => Rejected
          /\ \A l \in DeleteInputs(n) :
                 (delete_cell(l) /\ \E k \in 1..Len(l) : out(l[k])) => Rejected
          /\ \A p \in PairInputs(n) :
                 /\ (move_cell(p[1], p[2]) /\ (out(p[1]) \/ out(p[2]))) => Rejected
                 /\ (swap_cells(p[1], p[2]) /\ (out(p[1]) \/ out(p[2]))) => Rejected
      ]_vars

\* o lists each of 0..n-1 once and nothing else
IsPermutation(o, n) ==
    /\ Len(o) = n
    /\ \A i \in 1..n : o[i] \in Indices(n)
    /\ \A i, j \in 1..n : o[i] = o[j] => i = j

\* C15: reorder_cells executes new_order only when it is a permutation of
\* 0..len-1; a list of another length, with a repeated index, a missing
\* index or an index out of range gets an error, and the cells and both
\* stacks stay as they were.
C15_ReorderValidated ==
    [][/\ (last'.op = "reorder" /\ ops' = ops + 1)
              => IsPermutation(last'.list, Len(cells))
       /\ result'.status \in {"error_length", "error_order"}
              => UNCHANGED <<cells, undo_stack, redo_stack>>
      ]_vars

\* an order of the right length that is no permutation, rejected on three
\* cells with a command on the undo stack
C15_Witness ==
    /\ result.status = "error_order"
    /\ Len(cells) = 3
    /\ Len(undo_stack) = 1

\* a call of a mutation or of a history operation
ActiveNotebookCall ==
    \/ MgrInsert
    \/ MgrOverwrite
    \/ MgrDelete
    \/ MgrMove
    \/ MgrSwap
    \/ MgrReorder
    \/ MgrUndo
    \/ MgrRedo
    \/ get_history
    \/ clear_history

\* C14: with no active notebook, insert, delete, overwrite, move, swap,
\* reorder, undo, redo, get_history and clear_history return the "no active
\* notebook" error and change no notebook and no history.
C14_NoActiveRejected ==
    [][(active_notebook = NoNotebook /\ ActiveNotebookCall) =>
           /\ result' = NoActive
           /\ UNCHANGED <<cells, undo_stack, redo_stack, notebooks, active_notebook>>
      ]_vars

\* the error returned after the only open notebook, which had a command in
\* its history, was closed
C14_Witness ==
    /\ active_notebook = NoNotebook
    /\ result = NoActive
    /\ ops = 1
    /\ \A n \in Names : ~notebooks[n].open

\* the cells and the two stacks of a NotebookInfo
DocOf(info) == <<info.cells, info.undo_stack, info.redo_stack>>

\* every command on the stacks of info was recorded while notebook n was
\* the active one
OwnedBy(n, info) ==
    /\ Len(info.snaps.undo) = Len(info.undo_stack)
    /\ Len(info.snaps.redo) = Len(info.redo_stack)
    /\ \A i \in 1..Len(info.snaps.undo) : info.snaps.undo[i].doc = n
    /\ \A i \in 1..Len(info.snaps.redo) : info.snaps.redo[i].doc = n

\* C20: every open notebook has a history of its own: whatever is called
\* while another notebook is active leaves its cells and stacks as they
\* were; they are the same when it becomes the active notebook and when it
\* stops being it; and the stacks undo and redo work on hold only commands
\* recorded for the active notebook.
C20_HistoriesSeparate ==
    [][/\ \A n \in Names :
             /\ (notebooks[n].open /\ notebooks'[n].open)
                    => notebooks'[n] = notebooks[n]
             /\ (notebooks[n].open /\ active_notebook' = n)
                    => <<cells', undo_stack', redo_stack'>> = DocOf(notebooks[n])
             /\ (active_notebook = n /\ notebooks'[n].open)
                    => DocOf(notebooks'[n]) = <<cells, undo_stack, redo_stack>>
             /\ notebooks'[n].open => OwnedBy(n, notebooks'[n])
       /\ active_notebook' # NoNotebook => OwnedBy(active_notebook', ActiveInfo')
      ]_vars

\* a command recorded for A and one for B; back on A, undo has undone A's
\* command and B still has its own on its undo stack
C20_Witness ==
    /\ active_notebook = "A"
    /\ last.op = "undo"
    /\ last.ok
    /\ undo_stack = <<>>
    /\ Len(redo_stack) = 1
    /\ snaps.redo[1].doc = "A"
    /\ cells = snaps.redo[1].pre
    /\ notebooks["B"].open
    /\ Len(notebooks["B"].undo_stack) = 1
    /\ notebooks["B"].snaps.undo[1].doc = "B"
    /\ notebooks["B"].cells = notebooks["B"].snaps.undo[1].post

\* C16: when the execute of a mutation request raises, the call returns an
\* error, nothing is pushed on the undo stack, the redo stack is kept, and
\* the cells are exactly as before the request.
C16_ExecuteFailureAtomic ==
    [][(/\ last'.op \in MutationOps
        /\ last'.op = "insert" => last'.a = -1
        /\ ~last'.ok
        /\ result'.status = "error")
           => UNCHANGED <<cells, undo_stack, redo_stack>>
      ]_vars

\* C17: when write_nb fails after a mutation has changed the cells in
\* memory, the call reports the failure, the cells stay changed and the
\* command is recorded on the undo stack.
C17_WriteFailureRecorded ==
    [][(write_fails /\ ~write_fails' /\ last'.op \in MutationOps) =>
           /\ result'.status = "error"
           /\ ops' = ops + 1
           /\ undo_stack' # <<>>
           /\ undo_stack'[Len(undo_stack')].kind = last'.op
      ]_vars

\* C18: when the undo of the i-th command of undo(n) raises, that command
\* is back on top of the undo stack, the i-1 commands before it are on the
\* redo stack in the order they were undone, none below it was touched, the
\* call returns an error with the failing command's description, and the
\* two stacks hold as many commands as before; redo(n) likewise with the
\* stacks exchanged.
C18_BatchFailure ==
    [][\A n \in 1..MaxSteps :
          /\ (undo(n) /\ can_undo(undo_stack) /\ ~last'.ok) =>
                 LET m == Len(undo_stack)
                     done == m - Len(undo_stack')
                 IN /\ done >= 0
                    /\ done < Min(n, m)
                    /\ undo_stack' = SubSeq(undo_stack, 1, m - done)
                    /\ redo_stack' = redo_stack \o TopFirst(undo_stack, done)
                    /\ result'.status = "error"
                    /\ result'.descs = <<description(undo_stack[m - done])>>
                    /\ Len(undo_stack') + Len(redo_stack') = m + Len(redo_stack)
          /\ (redo(n) /\ can_redo(redo_stack) /\ ~last'.ok) =>
                 LET m == Len(redo_stack)
                     done == m - Len(redo_stack')
                 IN /\ done >= 0
                    /\ done < Min(n, m)
                    /\ SubSeq(redo_stack', 1, m - done - 1) = SubSeq(redo_stack, 1, m - done - 1)
                    /\ redo_stack'[m - done].kind = redo_stack[m - done].kind
                    /\ Len(undo_stack') = Len(undo_stack) + done
                    /\ SubSeq(undo_stack', 1, Len(undo_stack)) = undo_stack
                    /\ \A i \in 1..done :
                           undo_stack'[Len(undo_stack) + i].kind = TopFirst(redo_stack, done)[i].kind
                    /\ result'.status = "error"
                    /\ result'.descs = <<description(redo_stack'[m - done])>>
                    /\ Len(undo_stack') + Len(redo_stack') = Len(undo_stack) + m
      ]_vars

\* undo(steps=2) whose second undo raised: one command on each stack
C18_Witness ==
    /\ last.op = "undo"
    /\ last.a = 2
    /\ ~last.ok
    /\ last.b = 1
    /\ result.status = "error"
    /\ Len(result.descs) = 1
    /\ Len(undo_stack) = 1
    /\ Len(redo_stack) = 1

\* every insert command of the history holds a resolved, non-negative index
InsertsResolved ==
    \A c \in Range(undo_stack) \cup Range(redo_stack) :
        c.kind = "insert" => c.cell_index >= 0

\* C19: when the first step of an undo or redo fails, the failing command
\* is back on its stack and the cells are what they were before the call,
\* neither partly nor fully reverted (histories of in-range inserts).
C19_FailedStepLeavesCells ==
    [][(/\ InsertsResolved
        /\ last'.op \in {"undo", "redo"}
        /\ ~last'.ok
        /\ last'.b = 0)
           => /\ cells' = cells
              /\ UNCHANGED <<undo_stack, redo_stack>>
      ]_vars

\* C23: after every execute, undo and redo of a notebook command each
\* cell's idx_ is its index in the cell list, the cells re-created by the
\* undo of a delete included.
C23_IdxSynchronized ==
    \A i \in 1..Len(cells) : cells[i].idx_ = i - 1

\* a delete of the first cell of three was undone: the re-created cell is
\* followed by two cells that moved back
C23_Witness ==
    /\ UndoneDirectly("delete")
    /\ last.top.list = <<0>>
    /\ Len(cells) = 3

\* C30: clear_history empties the undo stack and the redo stack of the
\* active notebook and leaves its cells, the other notebooks and the active
\* name as they were; while the stacks are empty undo and redo report that
\* there is nothing to undo or redo and change nothing, and the stacks stay
\* empty until a command is recorded.
C30_ClearHistory ==
    [][/\ (active_notebook # NoNotebook /\ clear_history) =>
              /\ undo_stack' = <<>>
              /\ redo_stack' = <<>>
              /\ result'.status = "cleared"
              /\ UNCHANGED <<cells, notebooks, active_notebook>>
       /\ (active_notebook # NoNotebook /\ undo_stack = <<>> /\ MgrUndo) =>
              /\ result'.status = "nothing_to_undo"
              /\ UNCHANGED <<cells, undo_stack, redo_stack>>
       /\ (active_notebook # NoNotebook /\ redo_stack = <<>> /\ MgrRedo) =>
              /\ result'.status = "nothing_to_redo"
              /\ UNCHANGED <<cells, undo_stack, redo_stack>>
       /\ (/\ result.status = "cleared"
           /\ active_notebook' = active_notebook
           /\ ops' = ops) =>
              (undo_stack' = <<>> /\ redo_stack' = <<>>)
      ]_vars

\* the history was cleared after two commands were recorded and one of
\* them undone: the cells keep the effect of the other
C30_Witness ==
    /\ result.status = "cleared"
    /\ last.op = "undo"
    /\ last.ok
    /\ last.b = 1
    /\ ops = 2
    /\ \A n \in Names : notebooks[n].undo_stack = <<>> /\ notebooks[n].redo_stack = <<>>
    /\ undo_stack = <<>>
    /\ redo_stack = <<>>
    /\ Len(cells) = 4

\* C28: after unuse_notebook(name) of an open notebook the name is no
\* longer open; when it was the active notebook, another notebook that is
\* still open becomes the active one if there is one and none otherwise;
\* when it was not, the active notebook and its cells and stacks stay.
C28_UnuseSwitchesActive ==
    [][\A n \in Names :
          (IsOpen(n) /\ unuse_notebook(n)) =>
              /\ ~IsOpen(n)'
              /\ \A o \in Names \ {n} : IsOpen(o)' = IsOpen(o)
              /\ IF n # active_notebook
                 THEN UNCHANGED <<active_notebook, cells, undo_stack, redo_stack>>
                 ELSE IF \E o \in Names \ {n} : IsOpen(o)
                 THEN /\ active_notebook' \in Names \ {n}
                      /\ IsOpen(active_notebook')
                      /\ <<cells', undo_stack', redo_stack'>> = DocOf(notebooks[active_notebook'])
                 ELSE active_notebook' = NoNotebook
      ]_vars

\* the active notebook was closed while the other one was open with a
\* command in its history: the other one is now the active notebook
C28_Witness ==
    /\ result.status = "disconnected"
    /\ active_notebook = "B"
    /\ ~notebooks["A"].open
    /\ Len(undo_stack) = 1
    /\ snaps.undo[1].doc = "B"
    /\ last.op = "insert"
    /\ ops = 2

\* C24: the history lasts as long as the notebook is open. unuse_notebook
\* leaves the notebook's cells of that moment in its file, the file keeps
\* them while the notebook is closed, and use_notebook(connect) gives a
\* notebook with those cells and with empty undo and redo stacks, on which
\* undo reports that there is nothing to undo.
C24_HistoryPerSession ==
    [][\A n \in Names :
          /\ (IsOpen(n) /\ unuse_notebook(n)) =>
                 /\ files'[n].exists
                 /\ files'[n].cells = IF n = active_notebook THEN cells
                                      ELSE notebooks[n].cells
          /\ (~IsOpen(n) /\ ~IsOpen(n)') => files'[n] = files[n]
          /\ (~IsOpen(n) /\ files[n].exists /\ use_notebook(n, "connect")) =>
                 /\ active_notebook' = n
                 /\ IsOpen(n)'
                 /\ cells' = Reindex(files[n].cells)
                 /\ undo_stack' = <<>>
                 /\ redo_stack' = <<>>
          /\ (result.status = "activated" /\ MgrUndo) =>
                 /\ result'.status = "nothing_to_undo"
                 /\ UNCHANGED <<cells, undo_stack, redo_stack>>
      ]_vars

\* notebook A, read with three cells, was opened again after two recorded
\* commands of which one was undone: it has the four cells it was closed
\* with and an empty history
C24_Witness ==
    /\ result.status = "activated"
    /\ active_notebook = "A"
    /\ Len(cells) = 4
    /\ undo_stack = <<>>
    /\ redo_stack = <<>>
    /\ ops = 2
    /\ last.op = "undo"
    /\ last.ok

\* the cells without their outputs: what the structural calls are about
Structure(cs) == [i \in 1..Len(cs) |-> [source |-> cs[i].source, cell_type |-> cs[i].cell_type]]

C21_ActiveIsOpen ==
    (\A t \in Threads : threads[t].pc = "idle")
        => (active_notebook = NoNotebook \/ active_notebook \in open_names)

\* C27: one notebook per name. A use_notebook for a name that is in use,
\* whether the notebook was opened earlier or by a call of another thread
\* that is under way, returns the "already in use" error and leaves the
\* notebooks, their cells and histories, the files and the active name as
\* they are; and a use_notebook that is past its check stores its notebook
\* under a name that has no entry.
C27_UseOnce ==
    /\ [](\A t \in Threads :
              threads[t].pc = "use_store" => threads[t].notebook_name \notin open_names)
    /\ [][\A t \in Threads :
              (/\ threads[t].pc = "use_check"
               /\ threads[t].notebook_name \in open_names
               /\ use_notebook_check(t)) =>
                  /\ result'.status = "in_use"
                  /\ threads'[t].pc = "idle"
                  /\ UNCHANGED <<open_names, notebooks, files, active_notebook,
                                 cells, undo_stack, redo_stack>>
         ]_vars

\* both threads called use_notebook for B, which had no file: one created
\* it and the other was told that it is in use, while A keeps its history
C27_Witness ==
    /\ result.status = "in_use"
    /\ \A t \in Threads :
           /\ threads[t].pc = "idle"
           /\ threads[t].notebook_name = "B"
           /\ threads[t].mode = "create"
    /\ open_names = {"A", "B"}
    /\ active_notebook = "B"
    /\ cells = <<>>
    /\ Len(notebooks["A"].undo_stack) = 1

\* -------------------------------------------------------- DialogManager
\* One dialog in use and active: dialog is self.dialogs[self.active_dialog],
\* with dialog.history's stacks and size limit as fields of the record.

\* objects a behaviour may create (messages added and deepcopies made)
MaxObjects == 4
\* commands recorded in the dialog's history in one behaviour
MaxDialogOps == 2

\* the two messages of the dialog file
InitMessages == <<Message(1, "a", "note"), Message(2, "b", "code")>>

\* the document part of the dialog
Doc(dlg) == [messages |-> dlg.messages, objects |-> dlg.objects]

\* the dialog with its document replaced
WithDoc(dlg, d) == [dlg EXCEPT !.messages = d.messages, !.objects = d.objects]

\* the ids the callers name: the ids in the list, and 0, which no message
\* has
KnownIds == Range(MessageIds(Doc(dialog))) \cup {0}

\* DialogInfo.get_message_index: the index of the first message with the
\* id, NotFound for None
NotFound == -1

get_message_index(d, msg_id) ==
    LET ids == MessageIds(d)
    IN IF \E i \in 1..Len(ids) : ids[i] = msg_id THEN ListIndex(ids, msg_id) ELSE NotFound

\* a dialog call, with the id and the fields an update_message was given
\* (a, list) and the ids a delete_message was given (list)
DialogCall(op, a, b, list) == [op |-> op, a |-> a, b |-> b, list |-> list]

\* what the dialog methods leave alone
DialogFrame ==
    UNCHANGED <<cells, undo_stack, redo_stack, max_size, snaps, run, active_notebook,
                notebooks, write_fails, faults, files, open_names, lock, threads>>

\* a call that returns without running a command
DialogReturned(call, res) ==
    /\ result' = res
    /\ last' = call
    /\ UNCHANGED <<dialog, ops>>
    /\ DialogFrame

\* the try block around command.execute(self); dialog.history.add_command(command)
DialogRecorded(r, call, okResult, errResult) ==
    /\ dialog' = IF r.ok
                 THEN LET h == add_command(dialog.undo_stack, dialog.redo_stack,
                                           dialog.max_size, r.cmd)
                      IN [WithDoc(dialog, r.cells) EXCEPT !.undo_stack = h.undo,
                                                          !.redo_stack = h.redo]
                 ELSE WithDoc(dialog, r.cells)
    /\ ops' = IF r.ok THEN ops + 1 ELSE ops
    /\ result' = IF r.ok THEN okResult ELSE errResult
    /\ last' = call
    /\ DialogFrame

add_message(content, msg_type, index) ==
    LET call == DialogCall("add_message", 0, 0, <<>>)
    IN IF dialog = NoDialog
       THEN DialogReturned(call, NoActive)
       ELSE LET d == Doc(dialog)
                msg == NewRef(d)
                made == [d EXCEPT !.objects = Append(d.objects, Message(msg, content, msg_type))]
                command == InsertMessageCommand(index, msg)
                r == InsertMessageCommand_execute(made, command)
                h == add_command(dialog.undo_stack, dialog.redo_stack, dialog.max_size, r.cmd)
            IN /\ dialog' = IF r.ok
                            THEN [WithDoc(dialog, r.cells) EXCEPT !.undo_stack = h.undo,
                                                                 !.redo_stack = h.redo,
                                                                 !.current_msg_id = msg]
                            ELSE WithDoc(dialog, r.cells)
               /\ ops' = IF r.ok THEN ops + 1 ELSE ops
               /\ result' = IF r.ok THEN Res("added", msg, 0, <<>>)
                            ELSE Res("error", 0, 0, <<>>)
               /\ last' = call
               /\ DialogFrame

\* the content, output and keyword arguments of update_message as the
\* commands it builds, in the order it runs them: fields is a sequence of
\* <<parameter, value>>
UpdateCommand(d, msg_index, field) ==
    LET msg == MessageAt(d, msg_index)
    IN IF field[1] = "output"
       THEN UpdateMessageOutputCommand(msg_index, msg.output, field[2], Now)
       ELSE UpdateMessageCommand(msg_index, field[1], getattr(msg, field[1]), field[2])

\* the three try blocks of update_message, one field after the other: n
\* counts the commands recorded
RECURSIVE UpdateLoop(_, _, _, _, _, _)
UpdateLoop(d, us, rs, msg_index, fields, n) ==
    IF fields = <<>>
    THEN [ok |-> TRUE, cells |-> d, undo |-> us, redo |-> rs, n |-> n]
    ELSE IF ~hasattr(MessageAt(d, msg_index), Head(fields)[1])
    THEN UpdateLoop(d, us, rs, msg_index, Tail(fields), n)
    ELSE LET r == command_execute(d, UpdateCommand(d, msg_index, Head(fields)))
             h == add_command(us, rs, dialog.max_size, r.cmd)
         IN IF r.ok
            THEN UpdateLoop(r.cells, h.undo, h.redo, msg_index, Tail(fields), n + 1)
            ELSE [ok |-> FALSE, cells |-> r.cells, undo |-> us, redo |-> rs, n |-> n]

IsContent(field) == field[1] = "content"

IsOutput(field) == field[1] = "output"

IsKeyword(field) == field[1] \notin {"content", "output"}

\* faulty variant: the fields are applied in the order the caller wrote them
CallOrder_as_written(fields) == fields

\* the order in which update_message comes to the arguments of a call
\* written with the fields in the order of the list: content, output, then
\* kwargs.items()
CallOrder(fields) ==
    SelectSeq(fields, IsContent) \o SelectSeq(fields, IsOutput) \o SelectSeq(fields, IsKeyword)

update_message(msg_id, fields) ==
    LET call == DialogCall("update_message", msg_id, 0, fields)
        msg_index == get_message_index(Doc(dialog), msg_id)
    IN IF dialog = NoDialog
       THEN DialogReturned(call, NoActive)
       ELSE IF msg_index = NotFound
       THEN DialogReturned(call, Res("not_found", 0, 0, <<>>))
       ELSE LET r == UpdateLoop(Doc(dialog), dialog.undo_stack, dialog.redo_stack,
                                msg_index, CallOrder(fields), 0)
            IN /\ dialog' = [WithDoc(dialog, r.cells) EXCEPT !.undo_stack = r.undo,
                                                             !.redo_stack = r.redo]
               /\ ops' = ops + r.n
               /\ result' = IF r.ok THEN Res("updated", msg_index, r.n, <<>>)
                            ELSE Res("error", msg_index, r.n, <<>>)
               /\ last' = call
               /\ DialogFrame

\* the indices delete_message builds from msg_ids
RECURSIVE ResolvedIndices(_, _)
ResolvedIndices(d, msg_ids) ==
    IF msg_ids = <<>> THEN <<>>
    ELSE LET idx == get_message_index(d, Head(msg_ids))
         IN (IF idx # NotFound THEN <<idx>> ELSE <<>>) \o ResolvedIndices(d, Tail(msg_ids))

delete_message(msg_ids) ==
    LET call == DialogCall("delete_message", 0, 0, msg_ids)
        indices == ResolvedIndices(Doc(dialog), msg_ids)
    IN IF dialog = NoDialog
       THEN DialogReturned(call, NoActive)
       ELSE IF indices = <<>>
       THEN DialogReturned(call, Res("no_valid_ids", 0, 0, <<>>))
       ELSE LET command == DeleteMessageCommand(indices)
                r == DeleteMessageCommand_execute(Doc(dialog), command)
            IN DialogRecorded(r, call, Res("deleted", 0, Len(indices), <<>>),
                              Res("error", 0, 0, <<>>))

move_message(from_index, to_index) ==
    LET call == DialogCall("move_message", 0, 0, <<>>)
    IN IF dialog = NoDialog
       THEN DialogReturned(call, NoActive)
       ELSE IF ~(0 <= from_index /\ from_index < Len(dialog.messages))
       THEN DialogReturned(call, Res("error_range", 0, 0, <<>>))
       ELSE IF ~(0 <= to_index /\ to_index < Len(dialog.messages))
       THEN DialogReturned(call, Res("error_range", 0, 0, <<>>))
       ELSE IF from_index = to_index
       THEN DialogReturned(call, Res("noop_move", 0, 0, <<>>))
       ELSE LET command == MoveMessageCommand(from_index, to_index)
                r == MoveMessageCommand_execute(Doc(dialog), command)
            IN DialogRecorded(r, call, Res("moved", to_index, 0, <<>>),
                              Res("error", 0, 0, <<>>))

swap_messages(index1, index2) ==
    LET call == DialogCall("swap_messages", 0, 0, <<>>)
    IN IF dialog = NoDialog
       THEN DialogReturned(call, NoActive)
       ELSE IF ~(0 <= index1 /\ index1 < Len(dialog.messages))
       THEN DialogReturned(call, Res("error_range", 0, 0, <<>>))
       ELSE IF ~(0 <= index2 /\ index2 < Len(dialog.messages))
       THEN DialogReturned(call, Res("error_range", 0, 0, <<>>))
       ELSE IF index1 = index2
       THEN DialogReturned(call, Res("noop_swap", 0, 0, <<>>))
       ELSE LET command == SwapMessagesCommand(index1, index2)
                r == SwapMessagesCommand_execute(Doc(dialog), command)
            IN DialogRecorded(r, call, Res("swapped", 0, 0, <<>>),
                              Res("error", 0, 0, <<>>))

\* DialogManager.undo / redo: r is what dialog.history.undo(self, steps) or
\* dialog.history.redo(self, steps) did
DialogHistoryMoved(r, call, descriptions) ==
    /\ dialog' = [WithDoc(dialog, r.cells) EXCEPT !.undo_stack = r.undo,
                                                  !.redo_stack = r.redo]
    /\ result' = IF r.raised THEN Res("error", 0, r.n, <<>>)
                 ELSE Res("ok", 0, r.n, SubSeq(descriptions, 1, r.n))
    /\ last' = call
    /\ UNCHANGED ops
    /\ DialogFrame

dialog_undo(steps) ==
    LET call == DialogCall("undo", 0, 0, <<>>)
    IN IF dialog = NoDialog
       THEN DialogReturned(call, NoActive)
       ELSE IF ~can_undo(dialog.undo_stack)
       THEN DialogReturned(call, Res("nothing_to_undo", 0, 0, <<>>))
       ELSE DialogHistoryMoved(
                OperationHistory_undo(Doc(dialog), dialog.undo_stack, dialog.redo_stack, steps),
                call, get_undo_description(dialog.undo_stack, steps))

dialog_redo(steps) ==
    LET call == DialogCall("redo", 0, 0, <<>>)
    IN IF dialog = NoDialog
       THEN DialogReturned(call, NoActive)
       ELSE IF ~can_redo(dialog.redo_stack)
       THEN DialogReturned(call, Res("nothing_to_redo", 0, 0, <<>>))
       ELSE DialogHistoryMoved(
                OperationHistory_redo(Doc(dialog), dialog.undo_stack, dialog.redo_stack, steps),
                call, get_redo_description(dialog.redo_stack, steps))

\* execute_code(msg_id=msg_id): the code message is run and its output and
\* run time are stored in it; no command is created. fails: dialog.shell.run
\* raises (a timeout, an error of the shell). The stored output is
\* json.dumps(outputs)
execute_code(msg_id, fails) ==
    LET call == DialogCall("execute_code", 0, 0, <<>>)
        d == Doc(dialog)
        msg_index == get_message_index(d, msg_id)
    IN IF dialog = NoDialog
       THEN DialogReturned(call, NoActive)
       ELSE IF msg_index = NotFound
       THEN DialogReturned(call, Res("not_found", 0, 0, <<>>))
       ELSE IF MessageAt(d, msg_index).msg_type # "code"
       THEN DialogReturned(call, Res("error_type", 0, 0, <<>>))
       ELSE IF MessageAt(d, msg_index).content = ""
       THEN DialogReturned(call, Res("no_code", 0, 0, <<>>))
       ELSE IF fails
       THEN DialogReturned(call, Res("error", 0, 0, <<>>))
       ELSE LET ref == ListGet(d.messages, msg_index)
                ran == setattr(setattr(d, ref, "output", "out"), ref, "time_run", Now)
            IN /\ dialog' = WithDoc(dialog, ran)
               /\ result' = Res("executed", 0, 0, <<>>)
               /\ last' = call
               /\ UNCHANGED ops
               /\ DialogFrame

\* ----------------------------------------- one dialog, one calling thread
\* use_dialog(name, path, mode="connect") on a file that holds InitMessages
InitDialog ==
    /\ cells = <<>>
    /\ undo_stack = <<>>
    /\ redo_stack = <<>>
    /\ max_size = MaxHist
    /\ result = Res("activated", 0, 0, <<>>)
    /\ ops = 0
    /\ snaps = [undo |-> <<>>, redo |-> <<>>]
    /\ run = RunOff
    /\ active_notebook = NoNotebook
    /\ notebooks = [n \in Names |-> Closed]
    /\ write_fails = FALSE
    /\ faults = 0
    /\ files = [n \in Names |-> NoFile]
    /\ open_names = {}
    /\ SingleThreaded
    /\ dialog = [messages |-> <<1, 2>>, objects |-> InitMessages, undo_stack |-> <<>>,
                 redo_stack |-> <<>>, max_size |-> MaxHist, current_msg_id |-> 0]
    /\ last = DialogCall("use_dialog", 0, 0, <<>>)

\* the model's bounds: commands recorded and objects created
DialogBounded ==
    /\ ops' <= MaxDialogOps
    /\ Len(dialog'.objects) <= MaxObjects

UpdateInputs ==
    {<<<<"content", "y">>>>, <<<<"output", "o">>>>, <<<<"bogus", "v">>>>,
     <<<<"content", "y">>, <<"msg_type", "raw">>, <<"bogus", "v">>>>}

NextDialog ==
    \* index: append, the front, the second position, one past the end of the
    \* list after the insertion, and the negative index -2
    \/ \E index \in {-1, 0, 1, Len(dialog.messages) + 1, -2} :
           add_message("x", "note", index) /\ DialogBounded
    \/ \E msg_id \in KnownIds, fields \in UpdateInputs :
           update_message(msg_id, fields) /\ DialogBounded
    \/ \E a \in KnownIds, b \in KnownIds :
           \E msg_ids \in {<<a>>, <<a, b>>} :
               a # b /\ delete_message(msg_ids) /\ DialogBounded
    \/ \E from_index \in 0..Len(dialog.messages), to_index \in 0..(Len(dialog.messages) - 1) :
           move_message(from_index, to_index) /\ DialogBounded
    \/ \E index1 \in 0..Len(dialog.messages), index2 \in 0..(Len(dialog.messages) - 1) :
           swap_messages(index1, index2) /\ DialogBounded
    \/ \E steps \in 1..2 : dialog_undo(steps) /\ DialogBounded
    \/ \E steps \in 1..2 : dialog_redo(steps) /\ DialogBounded

SpecDialog == InitDialog /\ [][NextDialog]_vars

\* C22: in every state reachable by dialog operations (add_message at any
\* index it accepts, delete, update, move, swap, undo, redo) no two entries
\* of the message sequence have the same identifier
C22_NoDuplicateIds ==
    LET ids == MessageIds(Doc(dialog))
    IN \A i \in 1..Len(ids), j \in 1..Len(ids) : i # j => ids[i] # ids[j]

\* the update_message call that made this step named an id no message has
UnknownId == get_message_index(Doc(dialog), last'.a) = NotFound

\* the update_message call that made this step named a field the message
\* with its id does not have
UnknownField ==
    /\ ~UnknownId
    /\ \E i \in 1..Len(last'.list) :
           ~hasattr(MessageAt(Doc(dialog), get_message_index(Doc(dialog), last'.a)),
                    last'.list[i][1])

\* C25: an update_message that names a field the message does not have
\* fails with an error and changes neither the message nor the history,
\* and so does an update_message whose id resolves to no message
C25_UnknownUpdateRejected ==
    [][(last'.op = "update_message" /\ (UnknownId \/ UnknownField)) =>
           /\ result'.status \in {"not_found", "unknown_field", "error"}
           /\ dialog' = dialog
      ]_vars

\* the references of refs whose messages have none of the ids
RECURSIVE OthersOf(_, _, _)
OthersOf(objects, refs, ids) ==
    IF refs = <<>> THEN <<>>
    ELSE (IF objects[Head(refs)].id \in ids THEN <<>> ELSE <<Head(refs)>>)
             \o OthersOf(objects, Tail(refs), ids)

\* C26: delete_message removes exactly the messages whose ids were given
\* and are in the list, and leaves the other messages in their order; ids
\* that no message has are ignored, and when no given id is in the list
\* the call returns an error and changes neither the list nor the history
C26_DeleteByIds ==
    [][last'.op = "delete_message" =>
           LET given == Range(last'.list)
               present == given \cap Range(MessageIds(Doc(dialog)))
           IN IF present = {}
              THEN /\ result'.status = "no_valid_ids"
                   /\ dialog' = dialog
              ELSE /\ result'.status = "deleted"
                   /\ dialog'.messages = OthersOf(dialog.objects, dialog.messages, given)
                   /\ dialog'.undo_stack # dialog.undo_stack
      ]_vars

\* ------------------------------------------------ properties of C31..C40
\* C31: with a notebook active, undo on an empty undo stack reports "Nothing
\* to undo" and redo on an empty redo stack reports "Nothing to redo"; the
\* cells, both stacks, the saved files and the other notebooks stay as they
\* were
C31_NothingToUndoOrRedo ==
    [][/\ (active_notebook # NoNotebook /\ undo_stack = <<>> /\ MgrUndo) =>
              /\ result'.status = "nothing_to_undo"
              /\ UNCHANGED <<cells, undo_stack, redo_stack, max_size, files, notebooks>>
       /\ (active_notebook # NoNotebook /\ redo_stack = <<>> /\ MgrRedo) =>
              /\ result'.status = "nothing_to_redo"
              /\ UNCHANGED <<cells, undo_stack, redo_stack, max_size, files, notebooks>>
      ]_vars

\* undo was called once more than there were commands: the answer is
\* "Nothing to undo" and the undone command is still on the redo stack
C31_Witness ==
    /\ active_notebook # NoNotebook
    /\ result.status = "nothing_to_undo"
    /\ undo_stack = <<>>
    /\ Len(redo_stack) = 1
    /\ last.op = "undo"

\* the commands a step moved from one stack onto the other, in the order
\* in which they were processed
Processed(from, to, to2) ==
    [i \in 1..(Len(to2) - Len(to)) |-> to2[Len(to) + i]]

\* C32: get_undo_description(n) and get_redo_description(n), asked before a
\* successful undo(n) or redo(n), hold min(n, stack size) descriptions, and
\* they are those of the commands the call then processes, in the order in
\* which it processes them
C32_DescriptionsOfProcessed ==
    [][\A n \in 1..MaxSteps :
          /\ (active_notebook # NoNotebook /\ undo(n) /\ result'.status = "ok") =>
                 LET d == get_undo_description(undo_stack, n)
                     done == Processed(undo_stack, redo_stack, redo_stack')
                 IN /\ Len(d) = Min(n, Len(undo_stack))
                    /\ Len(done) = Len(d)
                    /\ \A i \in 1..Len(d) : d[i] = description(done[i])
          /\ (active_notebook # NoNotebook /\ redo(n) /\ result'.status = "ok") =>
                 LET d == get_redo_description(redo_stack, n)
                     done == Processed(redo_stack, undo_stack, undo_stack')
                 IN /\ Len(d) = Min(n, Len(redo_stack))
                    /\ Len(done) = Len(d)
                    /\ \A i \in 1..Len(d) : d[i] = description(done[i])
      ]_vars

\* undo(2) processed two commands with different descriptions and reported
\* them in that order
C32_Witness ==
    /\ last.op = "undo"
    /\ last.a = 2
    /\ result.status = "ok"
    /\ Len(result.descs) = 2
    /\ result.descs[1] # result.descs[2]
    /\ Len(redo_stack) = 2
    /\ result.descs[1] = description(redo_stack[1])

\* ------------------------------------------- a history of many commands
\* the longest history the summary is asked about
MaxSummary == 12

\* the most appends undone before the summary is asked for
MaxUndone == 3

\* OperationHistory(max_size=100): the size every session's history has
DefaultMaxSize == 100

\* a notebook after k cells of one type were appended to an empty one, each
\* by one insert_cell(-1, type, "x") call: the i-th command holds the index
\* its cell was given
AppendedCells(k, type) ==
    [cells |-> Reindex([i \in 1..k |-> mk_cell("x", type)]),
     undo |-> [i \in 1..k |->
                  [InsertCellCommand(-1, type, "x") EXCEPT !.cell_index = i - 1]]]

\* a session in which k cells were appended and the last j appends undone
InitSummary ==
    /\ write_fails = FALSE
    /\ \E k \in 0..MaxSummary, j \in 0..MaxUndone, type \in {"code", "markdown"} :
          /\ j <= k
          /\ LET a == AppendedCells(k, type)
                 u == OperationHistory_undo(a.cells, a.undo, <<>>, j)
             IN /\ cells = u.cells
                /\ undo_stack = u.undo
                /\ redo_stack = u.redo
                /\ files = [n \in Names |-> IF n = "A" THEN [exists |-> TRUE, cells |-> u.cells]
                                            ELSE NoFile]
    /\ max_size = DefaultMaxSize
    /\ result = Res("ok", 0, 0, <<>>)
    /\ ops = 0
    /\ last = [op |-> "init", a |-> 0, b |-> 0, list |-> <<>>, ok |-> TRUE,
               direct |-> FALSE, top |-> NoTop, expect |-> <<>>,
               after_swap_noop |-> FALSE]
    /\ snaps = [undo |-> <<>>, redo |-> <<>>]
    /\ run = RunOff
    /\ active_notebook = "A"
    /\ notebooks = [n \in Names |-> Closed]
    /\ faults = 0
    /\ open_names = {"A"}
    /\ SingleThreaded
    /\ dialog = NoDialog

NextSummary == get_history

SpecSummary == InitSummary /\ [][NextSummary]_vars

\* C33: the history summary gives the sizes of the undo and the redo stack
\* and the descriptions of the last min(10, size) commands of the undo
\* stack, the oldest of them first; both stacks are as they were
C33_HistorySummary ==
    [][(active_notebook # NoNotebook /\ get_history) =>
          LET k == Min(10, Len(undo_stack))
          IN /\ result'.status = "history"
             /\ result'.n = Len(undo_stack)
             /\ result'.index = Len(redo_stack)
             /\ Len(result'.descs) = k
             /\ \A i \in 1..k :
                    result'.descs[i] = description(undo_stack[Len(undo_stack) - k + i])
             /\ UNCHANGED <<undo_stack, redo_stack, cells>>
      ]_vars

\* the summary of a history with eleven commands to undo and one to redo:
\* ten descriptions, from the second oldest command to the newest
C33_Witness ==
    /\ result.status = "history"
    /\ result.n = 11
    /\ result.index = 1
    /\ Len(result.descs) = 10
    /\ result.descs[1] = description(undo_stack[2])
    /\ result.descs[10] = description(undo_stack[11])
    /\ result.descs[1] # result.descs[10]

\* how often x occurs in the sequence s
Count(s, x) == Cardinality({i \in 1..Len(s) : s[i] = x})

\* the same items, each as often: s and t are equal as multisets
SameItems(s, t) == \A x \in Range(s) \cup Range(t) : Count(s, x) = Count(t, x)

\* the cells as items: their fields without the position idx_
CellItems(cs) == [i \in 1..Len(cs) |-> nb2dict(cs[i])]

\* C34: after reorder_cells with a permutation new_order of the indices,
\* position i holds the cell that was at index new_order[i], for every i,
\* and the cells are the same multiset as before
C34_ReorderPlacesByOldIndex ==
    (last.op = "reorder" /\ last.ok /\ snaps.undo # <<>>) =>
        LET pre == TopSnap(snaps.undo).pre
            new_order == last.list
        IN /\ Len(cells) = Len(pre)
           /\ \A i \in 1..Len(cells) :
                  cells[i] = [pre[new_order[i] + 1] EXCEPT !.idx_ = i - 1]
           /\ SameItems(CellItems(cells), CellItems(pre))

\* cells a, b, c reordered with [1, 2, 0], a permutation that is not its
\* own inverse, are b, c, a
C34_Witness ==
    /\ last.op = "reorder"
    /\ last.ok
    /\ last.list = <<1, 2, 0>>
    /\ [i \in 1..Len(cells) |-> cells[i].source] = <<"b", "c", "a">>
    /\ [i \in 1..3 |-> TopSnap(snaps.undo).pre[i].source] = <<"a", "b", "c">>

\* the sequence s without the item at the 0-based position i
SeqWithout(s, i) == [k \in 1..(Len(s) - 1) |-> IF k <= i THEN s[k] ELSE s[k + 1]]

\* C35: after move_cell(a, b) with a # b in range, the cell that was at
\* index a is at index b, there are as many cells as before, and the other
\* cells are in the order they had
C35_MovePlacesAtTarget ==
    (last.op = "move" /\ last.ok /\ snaps.undo # <<>>) =>
        LET pre == CellItems(TopSnap(snaps.undo).pre)
            post == CellItems(cells)
        IN /\ last.a # last.b
           /\ Len(post) = Len(pre)
           /\ post[last.b + 1] = pre[last.a + 1]
           /\ SeqWithout(post, last.b) = SeqWithout(pre, last.a)
           /\ \A i \in 1..Len(cells) : cells[i].idx_ = i - 1

\* the first of the cells a, b, c moved to the end: b, c, a
C35_Witness ==
    /\ last.op = "move"
    /\ last.ok
    /\ last.a = 0
    /\ last.b = 2
    /\ [i \in 1..Len(cells) |-> cells[i].source] = <<"b", "c", "a">>
    /\ [i \in 1..3 |-> TopSnap(snaps.undo).pre[i].source] = <<"a", "b", "c">>

\* C36: move_cell(a, a) and swap_cells(a, a) with a in range answer with
\* success ("no move needed", "no swap needed") and leave the cells, the
\* undo stack and the redo stack as they were
C36_SameIndexNoop ==
    [][\A a \in 0..(Len(cells) - 1) :
          /\ move_cell(a, a) =>
                 /\ result'.status = "noop_move"
                 /\ UNCHANGED <<cells, undo_stack, redo_stack, files>>
          /\ swap_cells(a, a) =>
                 /\ result'.status = "noop_swap"
                 /\ UNCHANGED <<cells, undo_stack, redo_stack, files>>
      ]_vars

\* swap_cells(a, a) was called with an undone command on the redo stack:
\* the command is still there
C36_Witness ==
    /\ result.status = "noop_swap"
    /\ Len(redo_stack) = 1
    /\ undo_stack = <<>>
    /\ last.op = "undo"
    /\ cells = TopSnap(snaps.redo).pre

\* ------------------------------------------ updates and executions
\* commands recorded in the dialog's history in one behaviour of updates
MaxUpdateOps == 3

UpdatesBounded ==
    /\ ops' <= MaxUpdateOps
    /\ Len(dialog'.objects) <= MaxObjects

\* the fields of the update_message calls: content, output, both, or both
\* and an attribute, written in another order than the one in which
\* update_message comes to them
FieldInputs ==
    {<<<<"content", "y">>>>, <<<<"output", "o">>>>,
     <<<<"output", "o">>, <<"content", "y">>>>,
     <<<<"msg_type", "raw">>, <<"output", "o">>, <<"content", "y">>>>}

\* a dialog whose messages are updated and executed, with undo and redo
NextUpdates ==
    \/ \E msg_id \in KnownIds, fields \in FieldInputs :
           update_message(msg_id, fields) /\ UpdatesBounded
    \/ \E steps \in {1, MaxUpdateOps} : dialog_undo(steps) /\ UpdatesBounded
    \/ \E steps \in {1, MaxUpdateOps} : dialog_redo(steps) /\ UpdatesBounded
    \/ \E msg_id \in KnownIds, fails \in BOOLEAN :
           execute_code(msg_id, fails) /\ UpdatesBounded

\* use_dialog on the file that holds InitMessages: the dialog's history is
\* OperationHistory(max_size=100)
InitUpdates ==
    /\ cells = <<>>
    /\ undo_stack = <<>>
    /\ redo_stack = <<>>
    /\ max_size = DefaultMaxSize
    /\ result = Res("activated", 0, 0, <<>>)
    /\ ops = 0
    /\ snaps = [undo |-> <<>>, redo |-> <<>>]
    /\ run = RunOff
    /\ active_notebook = NoNotebook
    /\ notebooks = [n \in Names |-> Closed]
    /\ write_fails = FALSE
    /\ faults = 0
    /\ files = [n \in Names |-> NoFile]
    /\ open_names = {}
    /\ SingleThreaded
    /\ dialog = [messages |-> <<1, 2>>, objects |-> InitMessages, undo_stack |-> <<>>,
                 redo_stack |-> <<>>, max_size |-> DefaultMaxSize, current_msg_id |-> 0]
    /\ last = DialogCall("use_dialog", 0, 0, <<>>)

SpecUpdates == InitUpdates /\ [][NextUpdates]_vars

\* an update command of either class
IsUpdate(c) == c.kind \in {"update_message", "update_output"}

\* the old value(s) an update command holds: undo writes them back
OldOf(c) ==
    IF c.kind = "update_output" THEN <<c.old_output, c.old_time_run>> ELSE <<c.old_value>>

\* the value(s) the command's field(s) hold in the document d
HeldIn(d, c) ==
    LET msg == MessageAt(d, c.msg_index)
    IN IF c.kind = "update_output" THEN <<msg.output, msg.time_run>>
       ELSE <<getattr(msg, c.field_name)>>

\* the new value the command writes
NewOf(c) == IF c.kind = "update_output" THEN c.new_output ELSE c.new_value

\* C37 (update_message): an update command holds as its old value what the
\* field held immediately before the update (for an output update: the
\* output and the run time), whether the update is made by update_message
\* or made again by redo (then the command may also keep the values from
\* before the update_message call); undo writes exactly these values back,
\* and redo writes the new value again
C37_UpdateUndoRestores ==
    [][/\ (last'.op = "update_message" /\ result'.status = "updated" /\ result'.n = 1) =>
              LET made == dialog'.undo_stack[Len(dialog'.undo_stack)]
              IN /\ OldOf(made) = HeldIn(Doc(dialog), made)
                 /\ HeldIn(Doc(dialog'), made)[1] = NewOf(made)
       /\ (/\ last'.op = "redo" /\ result'.status = "ok" /\ result'.n = 1
           /\ IsUpdate(dialog.redo_stack[Len(dialog.redo_stack)])) =>
              LET command == dialog.redo_stack[Len(dialog.redo_stack)]
                  made == dialog'.undo_stack[Len(dialog'.undo_stack)]
              IN /\ \/ OldOf(made) = HeldIn(Doc(dialog), command)
                    \/ OldOf(made) = OldOf(command)
                 /\ HeldIn(Doc(dialog'), made)[1] = NewOf(command)
       /\ (/\ last'.op = "undo" /\ result'.status = "ok" /\ result'.n = 1
           /\ IsUpdate(dialog.undo_stack[Len(dialog.undo_stack)])) =>
              LET command == dialog.undo_stack[Len(dialog.undo_stack)]
              IN HeldIn(Doc(dialog'), command) = OldOf(command)
      ]_vars


C39_OneActiveFlag ==
    \A n \in Names : IsOpen(n) => (is_active(n) <=> n = active_notebook)


\* the attributes of the message an update command writes
Touched(c) == IF c.kind = "update_output" THEN {"output", "time_run"} ELSE {c.field_name}

\* the parameter of update_message a command was built for
ParameterOf(c) == IF c.kind = "update_output" THEN "output" ELSE c.field_name

\* the document d2 is d1 but for the attributes in keys of the object ref
SameBut(d1, d2, ref, keys) ==
    /\ d2.messages = d1.messages
    /\ Len(d2.objects) = Len(d1.objects)
    /\ \A r \in 1..Len(d1.objects) :
           /\ DOMAIN d2.objects[r] = DOMAIN d1.objects[r]
           /\ \A key \in DOMAIN d1.objects[r] :
                  (r # ref \/ key \notin keys) => d2.objects[r][key] = d1.objects[r][key]

\* C40: an update_message call with k fields, each an attribute the message
\* has, records k commands, for the content first, then the output, then
\* the other attributes; from the state it leaves, undo(steps=k) gives the
\* document from before the call, and undo() gives back only what the last
\* of the k commands wrote, the other fields keeping their new values
C40_UpdateFieldsRecordedSeparately ==
    [][(/\ last'.op = "update_message"
        /\ result'.status = "updated"
        /\ \A i \in 1..Len(last'.list) :
               hasattr(MessageAt(Doc(dialog), result'.index), last'.list[i][1])) =>
          LET fields == last'.list
              k == Len(fields)
              before == Doc(dialog)
              after == Doc(dialog')
              made == SubSeq(dialog'.undo_stack, Len(dialog.undo_stack) + 1,
                             Len(dialog'.undo_stack))
              all == OperationHistory_undo(after, dialog'.undo_stack, dialog'.redo_stack, k)
              one == OperationHistory_undo(after, dialog'.undo_stack, dialog'.redo_stack, 1)
              ref == ListGet(before.messages, result'.index)
          IN /\ result'.n = k
             /\ Len(made) = k
             /\ [i \in 1..k |-> ParameterOf(made[i])] =
                    [i \in 1..k |-> (SelectSeq(fields, IsContent) \o SelectSeq(fields, IsOutput)
                                        \o SelectSeq(fields, IsKeyword))[i][1]]
             /\ \A i \in 1..k : made[i].msg_index = result'.index
             /\ all.n = k
             /\ all.cells = before
             /\ k >= 1 =>
                    /\ one.n = 1
                    /\ HeldIn(one.cells, made[k]) = HeldIn(before, made[k])
                    /\ SameBut(after, one.cells, ref, Touched(made[k]))
      ]_vars

\* the code message was executed, then updated in one call with a type, an
\* output and a content, and undo(steps=3) was called: the message is as the
\* execution left it and the three commands are on the redo stack, the one
\* for the type on top of the one for the output, the one for the content
\* at the bottom
C40_Witness ==
    /\ last.op = "undo"
    /\ result.status = "ok"
    /\ result.n = 3
    /\ dialog.undo_stack = <<>>
    /\ Len(dialog.redo_stack) = 3
    /\ [i \in 1..3 |-> ParameterOf(dialog.redo_stack[i])] = <<"msg_type", "output", "content">>
    /\ MessageAt(Doc(dialog), 1) =
           [id |-> 2, content |-> "b", msg_type |-> "code", output |-> "out", time_run |-> Now]

====
